---- MODULE Spec2Model ----
(***************************************************************************)
(* Dual-estimator consensus engine of roofiq-learn-loop.                   *)
(*                                                                         *)
(* Numbers.  JavaScript numbers are modelled by exact rationals:           *)
(*   - areas (square feet) are integers or records [n, d] (n/d, reduced);  *)
(*   - confidences and uncertainties are integers in units of 1/ConfScale; *)
(*   - estimator weights are integers in units of 1/WeightScale.           *)
(* Optional numeric fields use Undefined for JavaScript's undefined.       *)
(***************************************************************************)
EXTENDS Integers, Sequences, FiniteSets, TLC

VARIABLES
    clock,            \* Date.now(), in milliseconds since the model's epoch
    fn,               \* PureSpec: the function application under test
    calls,            \* Spec: per predict() call, its working state
    learningMetrics,  \* Spec: DualLearningEngine.learningMetrics
    cache,            \* ServiceSpec: RoofAnalysisService.cache
    roofAnalyses,     \* ServiceSpec: the rows of the roof_analyses table
    requests          \* ServiceSpec: per analyzeRoof() call, its working state

serviceVars == <<cache, roofAnalyses, requests>>

vars == <<clock, fn, calls, learningMetrics, cache, roofAnalyses, requests>>

----------------------------------------------------------------------------
(* Bounds *)

MaxClock == 1
MaxFacets == 2
MaxRuns == 2
MaxCalls == 2
MaxRequests == 3

----------------------------------------------------------------------------
(* Units and program constants *)

ConfScale == 10000
WeightScale == 200000
Undefined == -1
disagreementThreshold == 100

----------------------------------------------------------------------------
(* Exact rational arithmetic *)

Abs(x) == IF x < 0 THEN -x ELSE x

Max(a, b) == IF a > b THEN a ELSE b

RECURSIVE GCD(_, _)
GCD(a, b) == IF b = 0 THEN a ELSE GCD(b, a % b)

Rat(n, d) ==
    LET g == GCD(Abs(n), Abs(d))
        s == IF d < 0 THEN -1 ELSE 1
    IN  [n |-> (s * n) \div g, d |-> (s * d) \div g]

RatInt(i) == [n |-> i, d |-> 1]

RatAdd(a, b) == Rat(a.n * b.d + b.n * a.d, a.d * b.d)

RatLess(a, b) == a.n * b.d < b.n * a.d

RatMul(a, b) == Rat(a.n * b.n, a.d * b.d)

RatMax(a, b) == IF RatLess(a, b) THEN b ELSE a

RatMin(a, b) == IF RatLess(b, a) THEN b ELSE a

\* Math.round of a non-negative rational
Round(x) == (2 * x.n + x.d) \div (2 * x.d)

RECURSIVE SumRat(_, _)
SumRat(seq, field) ==
    IF seq = <<>> THEN RatInt(0)
    ELSE RatAdd(Head(seq)[field], SumRat(Tail(seq), field))

----------------------------------------------------------------------------
(* Strings *)

\* String.prototype.includes
Includes(string, searchString) ==
    \E i \in 1..(Len(string) - Len(searchString) + 1) :
        SubSeq(string, i, i + Len(searchString) - 1) = searchString

----------------------------------------------------------------------------
(* Facets (RoofFacet).  area and confidence are rationals; an id is a      *)
(* tuple <<prefix, type, number>> standing for the id string.              *)

Facet(id, polygon, area, pitch, type, confidence) ==
    [id |-> id, polygon |-> polygon, area |-> RatInt(area), pitch |-> pitch,
     type |-> type, confidence |-> RatInt(confidence)]

PolyA == <<<<0, 0>>, <<40, 0>>, <<40, 20>>, <<0, 20>>>>

PolyB == <<<<0, 0>>, <<30, 0>>, <<15, 40>>>>

\* The facets an estimator may report: two main facets that differ in
\* every field, a dormer, a facet without a type, and a zero-area facet.
MainFacetA == Facet(<<"facet", "main", 1>>, PolyA, 800, "6/12", "main", 9000)

MainFacetB == Facet(<<"facet", "main", 2>>, PolyB, 1200, "8/12", "main", 7000)

DormerFacet == Facet(<<"facet", "dormer", 3>>, PolyB, 100, "6/12", "dormer", 8000)

UntypedFacet == Facet(<<"facet", "", 4>>, PolyA, 300, "8/12", "", 6000)

ZeroAreaFacet == Facet(<<"facet", "garage", 5>>, PolyA, 0, "4/12", "garage", 5000)

\* n main facets
ManyFacets(n) ==
    [i \in 1..n |-> Facet(<<"facet", "main", i>>, PolyA, 300, "6/12", "main", 9000)]

Facets == {MainFacetA, MainFacetB, DormerFacet, UntypedFacet, ZeroAreaFacet}

SeqsUpTo(S, k) == UNION { [1..m -> S] : m \in 0..k }

FacetLists == SeqsUpTo(Facets, MaxFacets)

DefaultFacet ==
    [id |-> <<"default", "main", 0>>,
     polygon |-> <<<<0, 0>>, <<100, 0>>, <<100, 100>>, <<0, 100>>>>,
     area |-> RatInt(2000), pitch |-> "8/12", type |-> "main",
     confidence |-> RatInt(5000)]

\* Keys of facetsByType in insertion order; facets without a type are skipped.
RECURSIVE TypeKeys(_, _)
TypeKeys(seq, acc) ==
    IF seq = <<>> THEN acc
    ELSE LET f == Head(seq)
         IN  IF f.type = "" \/ \E i \in 1..Len(acc) : acc[i] = f.type
             THEN TypeKeys(Tail(seq), acc)
             ELSE TypeKeys(Tail(seq), Append(acc, f.type))

FacetsOfType(seq, type) == SelectSeq(seq, LAMBDA f : f.type = type)

\* Mutant: the merged facet gets the total area of its group, the division
\* by facets.length is missing.
MergeGroup_TotalArea(type, facets, now) ==
    IF Len(facets) = 1 THEN facets[1]
    ELSE LET sumArea == SumRat(facets, "area")
             sumConfidence == SumRat(facets, "confidence")
         IN  [id |-> <<"merged", type, now>>,
              polygon |-> facets[1].polygon,
              area |-> sumArea,
              pitch |-> facets[1].pitch,
              type |-> type,
              confidence |-> Rat(sumConfidence.n, sumConfidence.d * Len(facets))]

MergeGroup(type, facets, now) ==
    IF Len(facets) = 1 THEN facets[1]
    ELSE LET sumArea == SumRat(facets, "area")
             sumConfidence == SumRat(facets, "confidence")
         IN  [id |-> <<"merged", type, now>>,
              polygon |-> facets[1].polygon,
              area |-> Rat(sumArea.n, sumArea.d * Len(facets)),
              pitch |-> facets[1].pitch,
              type |-> type,
              confidence |-> Rat(sumConfidence.n, sumConfidence.d * Len(facets))]

mergeFacets(visionFacets, geometryFacets, now) ==
    IF Len(visionFacets) = 0 /\ Len(geometryFacets) = 0
    THEN <<DefaultFacet>>
    ELSE LET allFacets == visionFacets \o geometryFacets
             keys == TypeKeys(allFacets, <<>>)
         IN  [i \in 1..Len(keys) |->
                 MergeGroup(keys[i], FacetsOfType(allFacets, keys[i]), now)]

\* mergeFacets on objects.  A heap is a sequence of facet objects, an
\* address its index, a facet array a sequence of addresses.  The result
\* holds the heap and the two argument arrays as mergeFacets leaves them, and
\* the array it returns.
Deref(heap, refs) == [i \in 1..Len(refs) |-> heap[refs[i]]]

RefsOfType(heap, refs, type) == SelectSeq(refs, LAMBDA a : heap[a].type = type)

\* Mutant: the averages are written into the first member of the group,
\* which is pushed instead of a new object.
MergeGroupOnHeap_InPlace(heap, type, refs, now) ==
    IF Len(refs) = 1 THEN [heap |-> heap, ref |-> refs[1]]
    ELSE LET value == MergeGroup(type, Deref(heap, refs), now)
         IN  [heap |-> [heap EXCEPT ![refs[1]] =
                           [@ EXCEPT !.area = value.area,
                                     !.confidence = value.confidence]],
              ref |-> refs[1]]

\* A group of one pushes the member itself; a larger group pushes a new
\* object literal.
MergeGroupOnHeap(heap, type, refs, now) ==
    IF Len(refs) = 1 THEN [heap |-> heap, ref |-> refs[1]]
    ELSE [heap |-> Append(heap, MergeGroup(type, Deref(heap, refs), now)),
          ref |-> Len(heap) + 1]

\* Object.entries(facetsByType).forEach(...)
RECURSIVE MergeGroupsOnHeap(_, _, _, _, _)
MergeGroupsOnHeap(heap, allRefs, keys, mergedFacets, now) ==
    IF keys = <<>> THEN [heap |-> heap, merged |-> mergedFacets]
    ELSE LET group == MergeGroupOnHeap(heap, Head(keys),
                          RefsOfType(heap, allRefs, Head(keys)), now)
         IN  MergeGroupsOnHeap(group.heap, allRefs, Tail(keys),
                               Append(mergedFacets, group.ref), now)

mergeFacetsOnHeap(heap, visionFacets, geometryFacets, now) ==
    IF Len(visionFacets) = 0 /\ Len(geometryFacets) = 0
    THEN [heap |-> Append(heap, DefaultFacet),
          visionFacets |-> visionFacets,
          geometryFacets |-> geometryFacets,
          merged |-> <<Len(heap) + 1>>]
    ELSE LET allFacets == visionFacets \o geometryFacets
             keys == TypeKeys(Deref(heap, allFacets), <<>>)
             groups == MergeGroupsOnHeap(heap, allFacets, keys, <<>>, now)
         IN  [heap |-> groups.heap,
              visionFacets |-> visionFacets,
              geometryFacets |-> geometryFacets,
              merged |-> groups.merged]

\* The addresses first .. first + count - 1, in order.
Addresses(first, count) == [i \in 1..count |-> first + i - 1]

\* Keys of pitchCounts in insertion order.
RECURSIVE PitchKeys(_, _)
PitchKeys(seq, acc) ==
    IF seq = <<>> THEN acc
    ELSE IF \E i \in 1..Len(acc) : acc[i] = Head(seq).pitch
         THEN PitchKeys(Tail(seq), acc)
         ELSE PitchKeys(Tail(seq), Append(acc, Head(seq).pitch))

PitchArea(facets, pitch) ==
    SumRat(SelectSeq(facets, LAMBDA f : f.pitch = pitch), "area")

\* entries.reduce((a, b) => counts[a] > counts[b] ? a : b), left to right.
RECURSIVE ReducePitch(_, _, _)
ReducePitch(facets, a, rest) ==
    IF rest = <<>> THEN a
    ELSE LET b == Head(rest)
         IN  ReducePitch(facets,
                 IF RatLess(PitchArea(facets, b), PitchArea(facets, a)) THEN a ELSE b,
                 Tail(rest))

\* reduce without an initial value throws a TypeError on an empty array.
determinePredominantPitch(facets) ==
    LET keys == PitchKeys(facets, <<>>)
    IN  IF keys = <<>>
        THEN [thrown |-> TRUE,
              error |-> [name |-> "TypeError",
                         message |-> "Reduce of empty array with no initial value"]]
        ELSE [thrown |-> FALSE, value |-> ReducePitch(facets, keys[1], Tail(keys))]

----------------------------------------------------------------------------
(* Estimator weights, in units of 1/WeightScale: the base weight and the   *)
(* bonuses are counted in twentieths (0.5 = 10/20, 0.15 = 3/20) and are    *)
(* multiplied by a confidence in units of 1/ConfScale.                     *)

\* Mutant: calculateVisionWeight without the Math.max(weight, 0.1) floor.
calculateVisionWeight_NoFloor(prediction, input) ==
    LET quality == IF input.imageQuality # Undefined /\ input.imageQuality # 0
                      /\ input.imageQuality * 10 > 8 * ConfScale
                   THEN 4 ELSE 0
        lighting == IF input.timeOfDay = "afternoon" THEN 2 ELSE 0
    IN  (10 + quality + lighting) * prediction.confidence

\* input.imageQuality && input.imageQuality > 0.8: undefined and 0 are falsy
calculateVisionWeight(prediction, input) ==
    LET base == 10
        quality == IF input.imageQuality # Undefined /\ input.imageQuality # 0
                      /\ input.imageQuality * 10 > 8 * ConfScale
                   THEN 4 ELSE 0
        lighting == IF input.timeOfDay = "afternoon" THEN 2 ELSE 0
        weight == (base + quality + lighting) * prediction.confidence
    IN  Max(weight, WeightScale \div 10)

\* footprintData is a string, buildingAge a number: "" and 0 are falsy too
calculateGeometryWeight(prediction, input) ==
    LET base == 10
        footprint == IF input.footprintData THEN 3 ELSE 0
        age == IF input.buildingAge # Undefined /\ input.buildingAge # 0
               THEN 2 ELSE 0
        neighborhood == IF input.neighborhoodContext.present THEN 3 ELSE 0
        weight == (base + footprint + age + neighborhood) * prediction.confidence
    IN  Max(weight, WeightScale \div 10)

----------------------------------------------------------------------------
(* createConsensus *)

\* 1 - areaDifference / averageEstimate, as (sum - 2 * diff) / sum
AgreementLevel(visionEstimate, geometryEstimate) ==
    LET areaDifference == Abs(visionEstimate - geometryEstimate)
        sum == visionEstimate + geometryEstimate
    IN  Rat(sum - 2 * areaDifference, sum)

\* x > k/10 for a rational x
RatAboveTenths(x, k) == x.n * 10 > k * x.d

\* c > k/10 for a confidence c in units of 1/ConfScale
AboveTenths(c, k) == c * 10 > k * ConfScale

\* Mutant: 'medium' needs the agreement and the two confidences (&& for ||).
ConfidenceLevel_MediumNeedsBoth(agreementLevel, visionConfidence, geometryConfidence) ==
    IF RatAboveTenths(agreementLevel, 9) /\ AboveTenths(visionConfidence, 8)
       /\ AboveTenths(geometryConfidence, 8)
    THEN "high"
    ELSE IF RatAboveTenths(agreementLevel, 8)
            /\ (AboveTenths(visionConfidence, 7) /\ AboveTenths(geometryConfidence, 7))
         THEN "medium"
         ELSE "low"

\* Mutant: 'high' needs both confidences above 0.9 instead of 0.8.
ConfidenceLevel_HighAboveNine(agreementLevel, visionConfidence, geometryConfidence) ==
    IF RatAboveTenths(agreementLevel, 9) /\ AboveTenths(visionConfidence, 9)
       /\ AboveTenths(geometryConfidence, 9)
    THEN "high"
    ELSE IF RatAboveTenths(agreementLevel, 8)
            \/ (AboveTenths(visionConfidence, 7) /\ AboveTenths(geometryConfidence, 7))
         THEN "medium"
         ELSE "low"

ConfidenceLevel(agreementLevel, visionConfidence, geometryConfidence) ==
    IF RatAboveTenths(agreementLevel, 9) /\ AboveTenths(visionConfidence, 8)
       /\ AboveTenths(geometryConfidence, 8)
    THEN "high"
    ELSE IF RatAboveTenths(agreementLevel, 8)
            \/ (AboveTenths(visionConfidence, 7) /\ AboveTenths(geometryConfidence, 7))
         THEN "medium"
         ELSE "low"

\* The learningFlag of a result that has none (the function returns undefined).
NoLearningFlag == [priority |-> "none", reason |-> "", suggestedAction |-> ""]

\* Mutant: the high priority starts at the threshold, not at twice the threshold.
assessLearningNeed_SingleThreshold(areaDifference, confidence, visionPrediction, geometryPrediction) ==
    IF areaDifference > disagreementThreshold
    THEN [priority |-> "high", reason |-> "Major model disagreement",
          suggestedAction |-> "Upload EagleView report for model learning"]
    ELSE IF confidence = "low"
         THEN [priority |-> "medium", reason |-> "Low confidence prediction",
               suggestedAction |-> "Consider EagleView verification"]
         ELSE IF AboveTenths(visionPrediction.uncertainty, 5)
                 \/ AboveTenths(geometryPrediction.uncertainty, 5)
              THEN [priority |-> "medium", reason |-> "High model uncertainty",
                    suggestedAction |->
                        "EagleView upload would improve future predictions"]
              ELSE [priority |-> "none", reason |-> "", suggestedAction |-> ""]

assessLearningNeed(areaDifference, confidence, visionPrediction, geometryPrediction) ==
    IF areaDifference > disagreementThreshold * 2
    THEN [priority |-> "high", reason |-> "Major model disagreement",
          suggestedAction |-> "Upload EagleView report for model learning"]
    ELSE IF confidence = "low"
         THEN [priority |-> "medium", reason |-> "Low confidence prediction",
               suggestedAction |-> "Consider EagleView verification"]
         ELSE IF AboveTenths(visionPrediction.uncertainty, 5)
                 \/ AboveTenths(geometryPrediction.uncertainty, 5)
              THEN [priority |-> "medium", reason |-> "High model uncertainty",
                    suggestedAction |->
                        "EagleView upload would improve future predictions"]
              ELSE NoLearningFlag

identifyConflictAreas(visionPrediction, geometryPrediction) ==
    (IF Abs(Len(visionPrediction.facets) - Len(geometryPrediction.facets)) > 2
     THEN <<"Facet count disagreement">> ELSE <<>>)
    \o
    (IF Abs(visionPrediction.estimate - geometryPrediction.estimate)
          > disagreementThreshold
     THEN <<"Total area disagreement">> ELSE <<>>)

\* Mutant: the weighted sum is halved instead of divided by the total weight.
ConsensusEstimate_Halved(visionPrediction, geometryPrediction, visionWeight, geometryWeight) ==
    Rat(visionPrediction.estimate * visionWeight
          + geometryPrediction.estimate * geometryWeight, 2 * WeightScale)

\* The weighted consensus: the weights are in units of 1/WeightScale, which
\* cancels in the quotient.
ConsensusEstimate(visionPrediction, geometryPrediction, visionWeight, geometryWeight) ==
    Rat(visionPrediction.estimate * visionWeight
          + geometryPrediction.estimate * geometryWeight,
        visionWeight + geometryWeight)

\* The reasoning lines that mention one of four words.
extractRiskFactors(reasoning) ==
    SelectSeq(reasoning,
              LAMBDA r : \/ Includes(r, "risk")
                         \/ Includes(r, "uncertainty")
                         \/ Includes(r, "shadow")
                         \/ Includes(r, "complex"))

\* Mutant: needsVerification compares the area difference with the
\* disagreement threshold itself, not with twice the threshold.
combineUncertaintyAnalysis_SingleThreshold(visionPrediction, geometryPrediction, areaDifference) ==
    LET totalVariance ==
            RatMax(Rat(visionPrediction.uncertainty + geometryPrediction.uncertainty,
                       2 * ConfScale),
                   Rat(areaDifference,
                       Max(visionPrediction.estimate, geometryPrediction.estimate)))
        averageEstimate ==
            Rat(visionPrediction.estimate + geometryPrediction.estimate, 2)
        variancePercent == RatMin(RatMul(totalVariance, Rat(3, 10)), Rat(4, 10))
    IN  [variance |-> totalVariance,
         confidenceRange |->
             [min |-> RatMul(averageEstimate, RatAdd(RatInt(1), RatMul(RatInt(-1), variancePercent))),
              max |-> RatMul(averageEstimate, RatAdd(RatInt(1), variancePercent))],
         riskFactors |->
             extractRiskFactors(visionPrediction.reasoning)
             \o extractRiskFactors(geometryPrediction.reasoning)
             \o (IF areaDifference > disagreementThreshold
                 THEN <<"Model disagreement detected">> ELSE <<>>),
         needsVerification |->
             RatAboveTenths(totalVariance, 4) \/ areaDifference > disagreementThreshold]

\* The UncertaintyAnalysis of the consensus.  uncertainty is in units of
\* 1/ConfScale, the variance a rational.
combineUncertaintyAnalysis(visionPrediction, geometryPrediction, areaDifference) ==
    LET combinedVariance ==
            Rat(visionPrediction.uncertainty + geometryPrediction.uncertainty,
                2 * ConfScale)
        disagreementVariance ==
            Rat(areaDifference,
                Max(visionPrediction.estimate, geometryPrediction.estimate))
        totalVariance == RatMax(combinedVariance, disagreementVariance)
        averageEstimate ==
            Rat(visionPrediction.estimate + geometryPrediction.estimate, 2)
        variancePercent == RatMin(RatMul(totalVariance, Rat(3, 10)), Rat(4, 10))
    IN  [variance |-> totalVariance,
         confidenceRange |->
             [min |-> RatMul(averageEstimate, RatAdd(RatInt(1), RatMul(RatInt(-1), variancePercent))),
              max |-> RatMul(averageEstimate, RatAdd(RatInt(1), variancePercent))],
         riskFactors |->
             extractRiskFactors(visionPrediction.reasoning)
             \o extractRiskFactors(geometryPrediction.reasoning)
             \o (IF areaDifference > disagreementThreshold
                 THEN <<"Model disagreement detected">> ELSE <<>>),
         needsVerification |->
             \/ RatAboveTenths(totalVariance, 4)
             \/ areaDifference > disagreementThreshold * 2]

\* The value of createConsensus: a ConsensusResult, or the error thrown while
\* the result object is built (thrown = TRUE).  Of the result's fields, the
\* estimate, the label, the agreement, the merged facets, the predominant
\* pitch, the mean confidence, the uncertainty analysis, the model
\* strengths, the conflict areas and the learning flag are computed here.
createConsensus(visionPrediction, geometryPrediction, imageInput, geometryInput, now) ==
    LET areaDifference == Abs(visionPrediction.estimate - geometryPrediction.estimate)
        agreementLevel ==
            AgreementLevel(visionPrediction.estimate, geometryPrediction.estimate)
        visionWeight == calculateVisionWeight(visionPrediction, imageInput)
        geometryWeight == calculateGeometryWeight(geometryPrediction, geometryInput)
        totalWeight == visionWeight + geometryWeight
        consensusEstimate ==
            ConsensusEstimate(visionPrediction, geometryPrediction,
                              visionWeight, geometryWeight)
        consensusFacets ==
            mergeFacets(visionPrediction.facets, geometryPrediction.facets, now)
        combinedUncertainty ==
            combineUncertaintyAnalysis(visionPrediction, geometryPrediction,
                                       areaDifference)
        confidence == ConfidenceLevel(agreementLevel, visionPrediction.confidence,
                                      geometryPrediction.confidence)
        learningFlag == assessLearningNeed(areaDifference, confidence,
                                           visionPrediction, geometryPrediction)
        predominantPitch == determinePredominantPitch(consensusFacets)
    IN  IF predominantPitch.thrown
        THEN predominantPitch
        ELSE [thrown |-> FALSE,
              estimate |-> consensusEstimate,
              confidence |-> confidence,
              modelAgreement |-> agreementLevel,
              finalPrediction |->
                  [facets |-> consensusFacets,
                   totalArea |-> consensusEstimate,
                   predominantPitch |-> predominantPitch.value,
                   confidence |->
                       Rat(visionPrediction.confidence + geometryPrediction.confidence, 2),
                   uncertaintyAnalysis |-> combinedUncertainty,
                   dualModelInsights |->
                       [visionModelStrength |-> Rat(visionWeight, totalWeight),
                        geometryModelStrength |-> Rat(geometryWeight, totalWeight),
                        conflictAreas |->
                            identifyConflictAreas(visionPrediction, geometryPrediction)]],
              learningFlag |-> learningFlag]

----------------------------------------------------------------------------
(* Inputs of the reconciliation functions *)

EstimateValues == {100, 200, 2000, 2150, 2600}

ConfidenceValues == {0, 7000, 8000, 9000}

UncertaintyValues == {5000, 6000}

\* The reasoning of an Estimate, as the vision estimator writes it.
SampleReasoning ==
    <<"Analyzed satellite imagery for 12 Oak St", "Detected 0 roof facets",
      "Identified 2 uncertainty factors", "Vision model confidence: 68%">>

\* ModelPrediction, the fields the reconciliation reads; these Estimates
\* come without reasoning lines.
Estimates(estimates, facetLists, confidences, uncertainties) ==
    [estimate : estimates, facets : facetLists,
     confidence : confidences, uncertainty : uncertainties,
     reasoning : {<<>>}]

ImageInputs ==
    [imageQuality : {Undefined, 8000, 9000},
     timeOfDay : {"morning", "afternoon", "evening"}]

NeighborhoodContexts ==
    { [present |-> FALSE, averageRoofArea |-> 0],
      [present |-> TRUE, averageRoofArea |-> 2200] }

GeometryInputs ==
    [footprintData : BOOLEAN, buildingAge : {Undefined, 1985},
     neighborhoodContext : NeighborhoodContexts]

\* The arguments createConsensus is applied to.  No step of createConsensus
\* reads a facet list together with a scalar field, so the two are varied
\* one at a time: every scalar and input combination with empty facet lists,
\* and every pair of facet lists with one choice of scalars and inputs.
ScalarCases ==
    [visionPrediction :
         Estimates(EstimateValues, {<<>>}, ConfidenceValues, UncertaintyValues),
     geometryPrediction :
         Estimates(EstimateValues, {<<>>}, ConfidenceValues, UncertaintyValues),
     imageInput : ImageInputs,
     geometryInput : GeometryInputs]

FacetCases ==
    [visionPrediction : Estimates({2000}, FacetLists, {9000}, {5000}),
     geometryPrediction : Estimates({2150}, FacetLists, {8000}, {5000}),
     imageInput : {[imageQuality |-> 8500, timeOfDay |-> "afternoon"]},
     geometryInput : {[footprintData |-> FALSE, buildingAge |-> 1985,
                       neighborhoodContext |->
                           [present |-> TRUE, averageRoofArea |-> 2200]]}]

ConsensusCases == ScalarCases \cup FacetCases

\* The arguments combineUncertaintyAnalysis is applied to: estimates that
\* differ by 0, 100, 150, 200, 201 and more, uncertainties around 0.4.
UncertaintyCases ==
    [visionPrediction : [estimate : {100, 200, 2000, 2150, 2200, 2201},
                         uncertainty : {0, 3000, 4000, 5000},
                         reasoning : {SampleReasoning}],
     geometryPrediction : [estimate : {100, 200, 2000, 2150, 2200, 2201},
                           uncertainty : {0, 3000, 4000, 5000},
                           reasoning : {<<>>}]]

----------------------------------------------------------------------------
(* PureSpec: the reconciliation functions applied to drawn inputs.  fn      *)
(* holds the application under test: its arguments and its results.        *)

Idle == [op |-> "idle"]

\* Time passes.
Tick ==
    /\ clock < MaxClock
    /\ clock' = clock + 1
    /\ UNCHANGED <<fn, calls, learningMetrics, serviceVars>>

ApplyWeights ==
    /\ fn = Idle
    /\ \E visionConfidence \in ConfidenceValues, geometryConfidence \in ConfidenceValues,
          imageInput \in ImageInputs, geometryInput \in GeometryInputs :
          fn' = [op |-> "weights",
                 visionConfidence |-> visionConfidence,
                 geometryConfidence |-> geometryConfidence,
                 imageInput |-> imageInput,
                 geometryInput |-> geometryInput,
                 visionWeight |->
                     calculateVisionWeight([confidence |-> visionConfidence], imageInput),
                 geometryWeight |->
                     calculateGeometryWeight([confidence |-> geometryConfidence],
                                             geometryInput)]
    /\ UNCHANGED <<clock, calls, learningMetrics, serviceVars>>

ApplyMergeFacets ==
    /\ fn = Idle
    /\ \E visionFacets \in FacetLists, geometryFacets \in FacetLists :
          fn' = [op |-> "mergeFacets",
                 visionFacets |-> visionFacets,
                 geometryFacets |-> geometryFacets,
                 now |-> clock,
                 merged |-> mergeFacets(visionFacets, geometryFacets, clock),
                 objects |->
                     mergeFacetsOnHeap(visionFacets \o geometryFacets,
                         Addresses(1, Len(visionFacets)),
                         Addresses(Len(visionFacets) + 1, Len(geometryFacets)),
                         clock)]
    /\ UNCHANGED <<clock, calls, learningMetrics, serviceVars>>

ApplyCreateConsensus ==
    /\ fn = Idle
    /\ \E case \in ConsensusCases :
          fn' = [op |-> "createConsensus",
                 visionPrediction |-> case.visionPrediction,
                 geometryPrediction |-> case.geometryPrediction,
                 imageInput |-> case.imageInput,
                 geometryInput |-> case.geometryInput,
                 runs |-> <<createConsensus(case.visionPrediction,
                                  case.geometryPrediction, case.imageInput,
                                             case.geometryInput, clock)>>]
    /\ UNCHANGED <<clock, calls, learningMetrics, serviceVars>>

\* combineUncertaintyAnalysis, with the areaDifference createConsensus passes.
ApplyCombineUncertainty ==
    /\ fn = Idle
    /\ \E case \in UncertaintyCases :
          LET areaDifference ==
                  Abs(case.visionPrediction.estimate - case.geometryPrediction.estimate)
          IN  fn' = [op |-> "combineUncertaintyAnalysis",
                     visionPrediction |-> case.visionPrediction,
                     geometryPrediction |-> case.geometryPrediction,
                     areaDifference |-> areaDifference,
                     result |-> combineUncertaintyAnalysis(case.visionPrediction,
                                    case.geometryPrediction, areaDifference)]
    /\ UNCHANGED <<clock, calls, learningMetrics, serviceVars>>

\* A further run of createConsensus on the same arguments, at the current time.
RunAgain ==
    /\ fn.op = "createConsensus"
    /\ Len(fn.runs) < MaxRuns
    /\ fn' = [fn EXCEPT !.runs =
                 Append(@, createConsensus(fn.visionPrediction, fn.geometryPrediction,
                                           fn.imageInput, fn.geometryInput, clock))]
    /\ UNCHANGED <<clock, calls, learningMetrics, serviceVars>>

----------------------------------------------------------------------------
(* Spec: DualLearningEngine.predict.  Each call builds its inputs, starts   *)
(* both estimators, and resumes when Promise.all settles: fulfilled once   *)
(* both estimators are, rejected with the first rejection.  A call record  *)
(* also keeps which estimator settled first.                               *)

\* One clock unit is six hours, the epoch is 06:00 local time.
detectTimeOfDay(now) ==
    LET hour == (6 + 6 * now) % 24
    IN  IF hour < 12 THEN "morning"
        ELSE IF hour < 17 THEN "afternoon"
        ELSE "evening"

\* The epoch is 1 January; months are counted as 31 days of four clock units.
detectSeasonality(now) ==
    LET month == (((6 + 6 * now) \div 24) \div 31) % 12
    IN  IF month >= 2 /\ month <= 4 THEN "spring"
        ELSE IF month >= 5 /\ month <= 7 THEN "summer"
        ELSE IF month >= 8 /\ month <= 10 THEN "fall"
        ELSE "winter"

\* Mutant: an image that was passed is assessed as 0.95.
assessImageQuality_Sharp(satelliteImage) == IF satelliteImage THEN 9500 ELSE 6000

assessImageQuality(satelliteImage) == IF satelliteImage THEN 8500 ELSE 6000

Pending == [state |-> "pending"]

Fulfilled(value) == [state |-> "fulfilled", value |-> value]

Rejected(error) == [state |-> "rejected", error |-> error]

\* supabase.functions.invoke returned an error: the estimator throws
\* new Error(`Vision model error: ...`) or `Geometry model error: ...`.
BackendError(model) ==
    [name |-> "Error",
     message |-> IF model = "vision" THEN "Vision model error"
                 ELSE "Geometry model error"]

\* data.prediction is undefined: reading a property of it throws.
MalformedResponse == [name |-> "TypeError",
                      message |-> "Cannot read properties of undefined"]

\* The estimator an error names, if any.
ErrorSide(error) ==
    IF error.message = "Vision model error" THEN "vision"
    ELSE IF error.message = "Geometry model error" THEN "geometry"
    ELSE "none"

\* What VisionModel.predict settles with.  Of the two ways an estimator
\* rejects, the vision estimator shows the malformed response here and the
\* geometry estimator the backend error.
VisionOutcomes ==
    { Rejected(MalformedResponse) }
    \cup { Fulfilled(e) :
             e \in Estimates({2000}, {<<MainFacetA>>, <<UntypedFacet>>}, {6800}, {1500}) }

\* What GeometryModel.predict settles with.
GeometryOutcomes ==
    { Rejected(BackendError("geometry")) }
    \cup { Fulfilled(e) :
             e \in Estimates({2000, 2600}, {<<>>}, {8000}, {2000}) }

\* Mutant: the join waits until both estimators have settled before it
\* rejects (Promise.allSettled followed by a check).
PromiseAll_WaitsForBoth(all, vision, geometry, settled) ==
    IF all.state # "pending" THEN all
    ELSE IF vision.state = "pending" \/ geometry.state = "pending" THEN Pending
    ELSE IF vision.state = "rejected" THEN Rejected(vision.error)
    ELSE IF geometry.state = "rejected" THEN Rejected(geometry.error)
    ELSE Fulfilled(<<vision.value, geometry.value>>)

\* Mutant: the join collects the values in the order of completion, not in
\* the order of the array it was given.
PromiseAll_CompletionOrder(all, vision, geometry, settled) ==
    IF all.state # "pending" THEN all
    ELSE IF settled.state = "rejected" THEN Rejected(settled.error)
    ELSE IF vision.state = "fulfilled" /\ geometry.state = "fulfilled"
         THEN IF settled = vision
              THEN Fulfilled(<<geometry.value, vision.value>>)
              ELSE Fulfilled(<<vision.value, geometry.value>>)
         ELSE Pending

\* Promise.all over <<vision, geometry>> after one of them has settled.
PromiseAll(all, vision, geometry, settled) ==
    IF all.state # "pending" THEN all
    ELSE IF settled.state = "rejected" THEN Rejected(settled.error)
    ELSE IF vision.state = "fulfilled" /\ geometry.state = "fulfilled"
         THEN Fulfilled(<<vision.value, geometry.value>>)
         ELSE Pending

\* predict's satelliteImage argument: whether the caller passed an image.
SatelliteImages == {TRUE}

\* The call record predict works on up to `await Promise.all([...])`.
NewCall(satelliteImage, now) ==
    [pc |-> "awaiting",
     startTime |-> now,
     imageInput |-> [imageQuality |-> assessImageQuality(satelliteImage),
                     timeOfDay |-> detectTimeOfDay(now)],
     geometryInput |-> [footprintData |-> FALSE,
                        buildingAge |-> 1985,
                        architecturalStyle |-> "Colonial",
                        neighborhoodContext |->
                            [present |-> TRUE, averageRoofArea |-> 2200]],
     vision |-> Pending,
     geometry |-> Pending,
     all |-> Pending,
     first |-> "none",
     result |-> Pending]

\* Mutant: totalPredictions is read before an await and written after it,
\* so the increment of a call that overlaps another one is lost.
Predict_LostUpdate ==
    /\ Len(calls) < MaxCalls
    /\ \E satelliteImage \in SatelliteImages :
          calls' = Append(calls, NewCall(satelliteImage, clock))
    /\ learningMetrics' =
           [learningMetrics EXCEPT !.totalPredictions =
               IF \E c \in 1..Len(calls) : calls[c].pc = "awaiting"
               THEN @ ELSE @ + 1]
    /\ UNCHANGED <<clock, fn, serviceVars>>

\* predict up to `await Promise.all([...])`: the three lookups it awaits
\* before are resolved mocks that read and write no engine state.
Predict ==
    /\ Len(calls) < MaxCalls
    /\ \E satelliteImage \in SatelliteImages :
          calls' = Append(calls, NewCall(satelliteImage, clock))
    /\ learningMetrics' =
           [learningMetrics EXCEPT !.totalPredictions = @ + 1]
    /\ UNCHANGED <<clock, fn, serviceVars>>

VisionSettle(c) ==
    /\ calls[c].vision = Pending
    /\ \E outcome \in VisionOutcomes :
          calls' = [calls EXCEPT
                       ![c].vision = outcome,
                       ![c].first = IF @ = "none" THEN "vision" ELSE @,
                       ![c].all = PromiseAll(@, outcome, calls[c].geometry, outcome)]
    /\ UNCHANGED <<clock, fn, learningMetrics, serviceVars>>

GeometrySettle(c) ==
    /\ calls[c].geometry = Pending
    /\ \E outcome \in GeometryOutcomes :
          calls' = [calls EXCEPT
                       ![c].geometry = outcome,
                       ![c].first = IF @ = "none" THEN "geometry" ELSE @,
                       ![c].all = PromiseAll(@, calls[c].vision, outcome, outcome)]
    /\ UNCHANGED <<clock, fn, learningMetrics, serviceVars>>

\* Mutant: the conflict test is turned around (> 0.8 for < 0.8), so a
\* consensus above 0.9 counts as accurate and as a conflict.
updateMetrics_ConflictAboveThreshold(metrics, startTime, consensus, now) ==
    LET processingTime == now - startTime
        average == metrics.averageProcessingTime
        accurate == IF RatAboveTenths(consensus.modelAgreement, 9) THEN 1 ELSE 0
        conflict == IF RatAboveTenths(consensus.modelAgreement, 8) THEN 1 ELSE 0
    IN  [metrics EXCEPT
            !.averageProcessingTime =
                Rat(average.n + processingTime * average.d, 2 * average.d),
            !.accurateConsensus = @ + accurate,
            !.conflictResolutions = @ + conflict]

updateMetrics(metrics, startTime, consensus, now) ==
    LET processingTime == now - startTime
        average == metrics.averageProcessingTime
        accurate == IF RatAboveTenths(consensus.modelAgreement, 9) THEN 1 ELSE 0
        conflict == IF consensus.modelAgreement.n * 10 < 8 * consensus.modelAgreement.d
                    THEN 1 ELSE 0
    IN  [metrics EXCEPT
            !.averageProcessingTime =
                Rat(average.n + processingTime * average.d, 2 * average.d),
            !.accurateConsensus = @ + accurate,
            !.conflictResolutions = @ + conflict]

\* Mutant: the two Estimates are kept in fields of the engine, which the
\* latest call to receive its Estimates overwrites.
PredictResume_SharedEstimates(c) ==
    /\ calls[c].pc = "awaiting"
    /\ calls[c].all.state # "pending"
    /\ IF calls[c].all.state = "rejected"
       THEN /\ calls' = [calls EXCEPT ![c].pc = "done",
                                      ![c].result = Rejected(calls[c].all.error)]
            /\ UNCHANGED learningMetrics
       ELSE LET arrived == { d \in 1..Len(calls) : calls[d].all.state = "fulfilled" }
                latest == CHOOSE d \in arrived : \A e \in arrived : e <= d
                consensus == createConsensus(calls[latest].all.value[1],
                                 calls[latest].all.value[2], calls[c].imageInput,
                                 calls[c].geometryInput, clock)
            IN  IF consensus.thrown
                THEN /\ calls' = [calls EXCEPT ![c].pc = "done",
                                               ![c].result = Rejected(consensus.error)]
                     /\ UNCHANGED learningMetrics
                ELSE /\ calls' = [calls EXCEPT ![c].pc = "done",
                                               ![c].result = Fulfilled(consensus)]
                     /\ learningMetrics' =
                            updateMetrics(learningMetrics, calls[c].startTime,
                                          consensus, clock)
    /\ UNCHANGED <<clock, fn, serviceVars>>

\* predict after Promise.all has settled: createConsensus and updateMetrics,
\* or the catch block, which rethrows the error it caught.
PredictResume(c) ==
    /\ calls[c].pc = "awaiting"
    /\ calls[c].all.state # "pending"
    /\ IF calls[c].all.state = "rejected"
       THEN /\ calls' = [calls EXCEPT ![c].pc = "done",
                                      ![c].result = Rejected(calls[c].all.error)]
            /\ UNCHANGED learningMetrics
       ELSE LET consensus == createConsensus(calls[c].all.value[1],
                                 calls[c].all.value[2], calls[c].imageInput,
                                 calls[c].geometryInput, clock)
            IN  IF consensus.thrown
                THEN /\ calls' = [calls EXCEPT ![c].pc = "done",
                                               ![c].result = Rejected(consensus.error)]
                     /\ UNCHANGED learningMetrics
                ELSE /\ calls' = [calls EXCEPT ![c].pc = "done",
                                               ![c].result = Fulfilled(consensus)]
                     /\ learningMetrics' =
                            updateMetrics(learningMetrics, calls[c].startTime,
                                          consensus, clock)
    /\ UNCHANGED <<clock, fn, serviceVars>>

----------------------------------------------------------------------------
(* The estimators, VisionModel.predict and GeometryModel.predict, as        *)
(* functions of their input and of what supabase.functions.invoke answers. *)
(* An optional object or array is Missing or Present(value); confidences   *)
(* of an Estimate are rationals, its uncertainty is in units of 1/ConfScale.*)

Missing == [present |-> FALSE]

Present(value) == [present |-> TRUE, value |-> value]

SampleMeasurements ==
    [ridges |-> RatInt(40), valleys |-> RatInt(20), hips |-> RatInt(10),
     rakes |-> RatInt(60), eaves |-> RatInt(120), gutters |-> RatInt(120),
     stepFlashing |-> RatInt(15), drip |-> RatInt(180)]

\* data.prediction, the fields the estimators read; roofComplexityScore
\* stands for reportSummary?.roofComplexityScore.
BackendPredictions ==
    [totalArea : {Undefined, 2000, 3500},
     facets : {Missing, Present(<<>>), Present(<<MainFacetA, DormerFacet>>),
               Present(ManyFacets(9))},
     measurements : {Missing, Present(SampleMeasurements)},
     roofComplexityScore : {Undefined, 3000, 9000}]

\* { data, error }: an error, data without a prediction, or a prediction.
BackendResponses ==
    { [error |-> TRUE, prediction |-> Missing] }
    \cup { [error |-> FALSE, prediction |-> p] :
              p \in {Missing} \cup { Present(q) : q \in BackendPredictions } }

VisionModelInputs ==
    [address : {"12 Oak St"},
     imageQuality : {Undefined, 0, 6000, 7000, 8500},
     seasonality : {"winter", "summer"},
     timeOfDay : {"morning", "afternoon", "evening"}]

GeometryModelInputs ==
    [address : {"12 Oak St"},
     footprintData : BOOLEAN,
     buildingAge : {Undefined, 1940, 1985},
     architecturalStyle : {"", "Colonial", "Victorian", "Ranch"},
     neighborhoodContext : NeighborhoodContexts]

\* prediction.totalArea || 2000
BaseArea(prediction) ==
    IF prediction.totalArea = Undefined \/ prediction.totalArea = 0
    THEN 2000 ELSE prediction.totalArea

\* score is in units of 1/ConfScale; factor / 10 and cap / 100 as in
\* Math.min(uncertaintyScore * 0.4, 0.3)
ConfidenceRange(baseArea, score, factor, cap) ==
    LET variancePercent ==
            RatMin(RatMul(Rat(score, ConfScale), Rat(factor, 10)), Rat(cap, 100))
    IN  [min |-> RatMul(RatInt(baseArea),
                        RatAdd(RatInt(1), RatMul(RatInt(-1), variancePercent))),
         max |-> RatMul(RatInt(baseArea), RatAdd(RatInt(1), variancePercent))]

calculateUncertainty(input, prediction) ==
    LET uncertaintyScore ==
            (IF input.imageQuality # Undefined /\ input.imageQuality # 0
                /\ input.imageQuality * 10 < 7 * ConfScale
             THEN 3000 ELSE 0)
            + (IF input.seasonality = "winter" THEN 1000 ELSE 0)
            + (IF input.timeOfDay \in {"morning", "evening"} THEN 1500 ELSE 0)
            + (IF prediction.facets.present /\ Len(prediction.facets.value) > 8
               THEN 2000 ELSE 0)
        riskFactors ==
            (IF input.imageQuality # Undefined /\ input.imageQuality # 0
                /\ input.imageQuality * 10 < 7 * ConfScale
             THEN <<"Poor satellite image quality">> ELSE <<>>)
            \o (IF input.seasonality = "winter"
                THEN <<"Winter imagery may have snow/shadow issues">> ELSE <<>>)
            \o (IF input.timeOfDay \in {"morning", "evening"}
                THEN <<"Long shadows may affect measurement accuracy">> ELSE <<>>)
            \o (IF prediction.facets.present /\ Len(prediction.facets.value) > 8
                THEN <<"Complex roof structure with many facets">> ELSE <<>>)
    IN  [variance |-> uncertaintyScore,
         confidenceRange |->
             ConfidenceRange(BaseArea(prediction), uncertaintyScore, 4, 30),
         riskFactors |-> riskFactors,
         needsVerification |-> uncertaintyScore * 10 > 4 * ConfScale]

adjustFacetConfidence(facet, input) ==
    LET confidence ==
            IF facet.type = "main" THEN RatMul(facet.confidence, Rat(11, 10))
            ELSE IF facet.type = "dormer" THEN RatMul(facet.confidence, Rat(9, 10))
            ELSE facet.confidence
    IN  RatMin(confidence, RatInt(ConfScale))

\* Each facet with its adjusted confidence (the visionMetadata it also gets
\* is read by nothing).
enhanceFacetsWithVisionData(facets, input) ==
    [i \in 1..Len(facets) |->
        [facets[i] EXCEPT !.confidence = adjustFacetConfidence(facets[i], input)]]

calculateVisionConfidence(prediction, input) ==
    LET quality == IF input.imageQuality # Undefined /\ input.imageQuality # 0
                   THEN Rat(input.imageQuality, ConfScale) ELSE RatInt(1)
        facetCount == IF prediction.facets.present /\ Len(prediction.facets.value) > 6
                      THEN Rat(9, 10) ELSE RatInt(1)
        complexity == IF prediction.roofComplexityScore # Undefined
                         /\ prediction.roofComplexityScore * 10 > 8 * ConfScale
                      THEN Rat(85, 100) ELSE RatInt(1)
        confidence == RatMul(RatMul(RatMul(Rat(8, 10), quality), facetCount), complexity)
    IN  RatMax(confidence, Rat(3, 10))

\* prediction.facets?.length || 0
FacetCount(prediction) ==
    IF prediction.facets.present THEN Len(prediction.facets.value) ELSE 0

generateVisionReasoning(prediction, input, uncertainty) ==
    <<"Analyzed satellite imagery for " \o input.address,
      "Detected " \o ToString(FacetCount(prediction)) \o " roof facets">>
    \o (IF input.imageQuality # Undefined /\ input.imageQuality * 10 > 8 * ConfScale
        THEN <<"High-quality satellite imagery provides clear roof boundaries">>
        ELSE <<>>)
    \o (IF Len(uncertainty.riskFactors) > 0
        THEN <<"Identified " \o ToString(Len(uncertainty.riskFactors))
                 \o " uncertainty factors">>
        ELSE <<>>)
    \o (IF prediction.roofComplexityScore # Undefined
           /\ prediction.roofComplexityScore * 10 > 7 * ConfScale
        THEN <<"Complex roof structure detected - recommend EagleView verification">>
        ELSE <<>>)
    \o <<"Vision model confidence: "
           \o ToString(Round(RatMul(calculateVisionConfidence(prediction, input),
                                    RatInt(100))))
           \o "%">>

\* VisionModel.predict: the promise it returns settles with this.
VisionModelPredict(input, response) ==
    IF response.error THEN Rejected(BackendError("vision"))
    ELSE IF ~response.prediction.present THEN Rejected(MalformedResponse)
    ELSE LET basePrediction == response.prediction.value
             uncertainty == calculateUncertainty(input, basePrediction)
         IN  IF ~basePrediction.facets.present THEN Rejected(MalformedResponse)
             ELSE Fulfilled(
                      [estimate |-> basePrediction.totalArea,
                       facets |-> enhanceFacetsWithVisionData(
                                      basePrediction.facets.value, input),
                       measurements |-> basePrediction.measurements,
                       confidence |-> calculateVisionConfidence(basePrediction, input),
                       uncertainty |-> uncertainty.variance,
                       reasoning |-> generateVisionReasoning(basePrediction, input,
                                                             uncertainty)])

\* |totalArea - averageRoofArea| / averageRoofArea > num / den; the quotient
\* is NaN, and every comparison false, when totalArea is undefined.
AreaDeviationAbove(prediction, context, num, den) ==
    /\ prediction.totalArea # Undefined
    /\ Abs(prediction.totalArea - context.averageRoofArea) * den
           > num * context.averageRoofArea

AreaDeviationBelow(prediction, context, num, den) ==
    /\ prediction.totalArea # Undefined
    /\ Abs(prediction.totalArea - context.averageRoofArea) * den
           < num * context.averageRoofArea

calculateGeometricUncertainty(input, prediction) ==
    LET uncertaintyScore ==
            (IF ~input.footprintData THEN 2000 ELSE 0)
            + (IF input.buildingAge = Undefined \/ input.buildingAge = 0 THEN 1000
               ELSE IF input.buildingAge < 1950 THEN 1500 ELSE 0)
            + (IF input.architecturalStyle = "" THEN 1000 ELSE 0)
            + (IF ~input.neighborhoodContext.present THEN 1500
               ELSE IF AreaDeviationAbove(prediction, input.neighborhoodContext, 5, 10)
                    THEN 2000 ELSE 0)
            + (IF prediction.roofComplexityScore # Undefined
                  /\ prediction.roofComplexityScore * 10 > 8 * ConfScale
               THEN 2500 ELSE 0)
        riskFactors ==
            (IF ~input.footprintData
             THEN <<"No detailed footprint data available">> ELSE <<>>)
            \o (IF input.buildingAge = Undefined \/ input.buildingAge = 0
                THEN <<"Unknown building age affects structural assumptions">>
                ELSE IF input.buildingAge < 1950
                THEN <<"Older building - non-standard construction practices">>
                ELSE <<>>)
            \o (IF input.architecturalStyle = ""
                THEN <<"Unknown architectural style">> ELSE <<>>)
            \o (IF ~input.neighborhoodContext.present
                THEN <<"No neighborhood context for validation">>
                ELSE IF AreaDeviationAbove(prediction, input.neighborhoodContext, 5, 10)
                THEN <<"Significantly different from neighborhood average">>
                ELSE <<>>)
            \o (IF prediction.roofComplexityScore # Undefined
                   /\ prediction.roofComplexityScore * 10 > 8 * ConfScale
                THEN <<"Highly complex roof structure">> ELSE <<>>)
    IN  [variance |-> uncertaintyScore,
         confidenceRange |->
             ConfidenceRange(BaseArea(prediction), uncertaintyScore, 3, 25),
         riskFactors |-> riskFactors,
         needsVerification |-> uncertaintyScore * 100 > 35 * ConfScale]

adjustGeometricConfidence(facet, input) ==
    LET boosted == IF facet.type = "main" /\ RatLess(RatInt(800), facet.area)
                   THEN RatMul(facet.confidence, Rat(11, 10)) ELSE facet.confidence
        confidence == IF facet.type = "dormer" /\ RatLess(RatInt(300), facet.area)
                      THEN RatMul(boosted, Rat(9, 10)) ELSE boosted
    IN  RatMin(confidence, RatInt(ConfScale))

\* Missing facets become an empty array (the geometryMetadata each facet
\* also gets is read by nothing).
enhanceFacetsWithGeometryData(facets, input) ==
    IF ~facets.present THEN <<>>
    ELSE [i \in 1..Len(facets.value) |->
             [facets.value[i] EXCEPT
                 !.confidence = adjustGeometricConfidence(facets.value[i], input)]]

\* Reading measurements.ridges of undefined throws; otherwise the
\* measurements, scaled for the Victorian and Ranch styles.
enhanceMeasurements(measurements, input) ==
    IF input.architecturalStyle \in {"Victorian", "Ranch"} /\ ~measurements.present
    THEN [thrown |-> TRUE, error |-> MalformedResponse]
    ELSE IF input.architecturalStyle = "Victorian"
    THEN [thrown |-> FALSE,
          value |-> Present([measurements.value EXCEPT
                       !.ridges = RatMul(@, Rat(12, 10)),
                       !.valleys = RatMul(@, Rat(13, 10)),
                       !.hips = RatMul(@, Rat(8, 10))])]
    ELSE IF input.architecturalStyle = "Ranch"
    THEN [thrown |-> FALSE,
          value |-> Present([measurements.value EXCEPT
                       !.ridges = RatMul(@, Rat(8, 10)),
                       !.valleys = RatMul(@, Rat(7, 10)),
                       !.eaves = RatMul(@, Rat(11, 10))])]
    ELSE [thrown |-> FALSE, value |-> measurements]

\* Mutant: the confidence has its floor but is not capped at 1.
calculateGeometryConfidence_NoUpperClamp(prediction, input) ==
    LET footprint == IF input.footprintData THEN Rat(11, 10) ELSE Rat(8, 10)
        age == IF input.buildingAge # Undefined /\ input.buildingAge # 0
               THEN Rat(105, 100) ELSE RatInt(1)
        style == IF input.architecturalStyle # "" THEN Rat(105, 100) ELSE RatInt(1)
        neighborhood ==
            IF ~input.neighborhoodContext.present THEN RatInt(1)
            ELSE IF AreaDeviationBelow(prediction, input.neighborhoodContext, 2, 10)
                 THEN Rat(11, 10)
            ELSE IF AreaDeviationAbove(prediction, input.neighborhoodContext, 5, 10)
                 THEN Rat(8, 10)
            ELSE RatInt(1)
        simple == IF prediction.roofComplexityScore # Undefined
                     /\ prediction.roofComplexityScore * 10 < 5 * ConfScale
                  THEN Rat(105, 100) ELSE RatInt(1)
        confidence ==
            RatMul(RatMul(RatMul(RatMul(RatMul(Rat(85, 100), footprint), age), style),
                          neighborhood), simple)
    IN  RatMax(confidence, Rat(4, 10))

calculateGeometryConfidence(prediction, input) ==
    LET footprint == IF input.footprintData THEN Rat(11, 10) ELSE Rat(8, 10)
        age == IF input.buildingAge # Undefined /\ input.buildingAge # 0
               THEN Rat(105, 100) ELSE RatInt(1)
        style == IF input.architecturalStyle # "" THEN Rat(105, 100) ELSE RatInt(1)
        neighborhood ==
            IF ~input.neighborhoodContext.present THEN RatInt(1)
            ELSE IF AreaDeviationBelow(prediction, input.neighborhoodContext, 2, 10)
                 THEN Rat(11, 10)
            ELSE IF AreaDeviationAbove(prediction, input.neighborhoodContext, 5, 10)
                 THEN Rat(8, 10)
            ELSE RatInt(1)
        simple == IF prediction.roofComplexityScore # Undefined
                     /\ prediction.roofComplexityScore * 10 < 5 * ConfScale
                  THEN Rat(105, 100) ELSE RatInt(1)
        confidence ==
            RatMul(RatMul(RatMul(RatMul(RatMul(Rat(85, 100), footprint), age), style),
                          neighborhood), simple)
    IN  RatMin(RatMax(confidence, Rat(4, 10)), RatInt(1))

generateGeometryReasoning(prediction, input, uncertainty) ==
    <<"Analyzed structural footprint for " \o input.address>>
    \o (IF input.architecturalStyle # ""
        THEN <<"Applied " \o input.architecturalStyle
                 \o " architectural style adjustments">>
        ELSE <<>>)
    \o (IF input.buildingAge # Undefined /\ input.buildingAge # 0
        THEN <<"Building age suggests "
                 \o (IF input.buildingAge < 1950 THEN "historic"
                     ELSE IF input.buildingAge < 1990 THEN "traditional"
                     ELSE "modern")
                 \o " construction methods">>
        ELSE <<>>)
    \o (IF ~input.neighborhoodContext.present THEN <<>>
        ELSE IF AreaDeviationBelow(prediction, input.neighborhoodContext, 2, 10)
        THEN <<"Roof area consistent with neighborhood patterns">>
        ELSE <<"Roof area "
                 \o (IF AreaDeviationAbove(prediction, input.neighborhoodContext, 5, 10)
                     THEN "significantly" ELSE "moderately")
                 \o " different from neighborhood average">>)
    \o <<"Detected " \o ToString(FacetCount(prediction)) \o " geometric sections">>
    \o (IF Len(uncertainty.riskFactors) > 0
        THEN <<"Identified " \o ToString(Len(uncertainty.riskFactors))
                 \o " geometric uncertainty factors">>
        ELSE <<>>)
    \o <<"Geometry model confidence: "
           \o ToString(Round(RatMul(calculateGeometryConfidence(prediction, input),
                                    RatInt(100))))
           \o "%">>

\* GeometryModel.predict: the promise it returns settles with this.
GeometryModelPredict(input, response) ==
    IF response.error THEN Rejected(BackendError("geometry"))
    ELSE IF ~response.prediction.present THEN Rejected(MalformedResponse)
    ELSE LET basePrediction == response.prediction.value
             uncertainty == calculateGeometricUncertainty(input, basePrediction)
             measurements == enhanceMeasurements(basePrediction.measurements, input)
         IN  IF measurements.thrown THEN Rejected(measurements.error)
             ELSE Fulfilled(
                      [estimate |-> basePrediction.totalArea,
                       facets |-> enhanceFacetsWithGeometryData(
                                      basePrediction.facets, input),
                       measurements |-> measurements.value,
                       confidence |-> calculateGeometryConfidence(basePrediction, input),
                       uncertainty |-> uncertainty.variance,
                       reasoning |-> generateGeometryReasoning(basePrediction, input,
                                                               uncertainty)])

ApplyVisionPredict ==
    /\ fn = Idle
    /\ \E input \in VisionModelInputs, response \in BackendResponses :
          fn' = [op |-> "VisionModel.predict",
                 input |-> input,
                 response |-> response,
                 result |-> VisionModelPredict(input, response)]
    /\ UNCHANGED <<clock, calls, learningMetrics, serviceVars>>

ApplyGeometryPredict ==
    /\ fn = Idle
    /\ \E input \in GeometryModelInputs, response \in BackendResponses :
          fn' = [op |-> "GeometryModel.predict",
                 input |-> input,
                 response |-> response,
                 result |-> GeometryModelPredict(input, response)]
    /\ UNCHANGED <<clock, calls, learningMetrics, serviceVars>>

----------------------------------------------------------------------------
(* predict with the estimators it constructs: the ConsensusResult, or the  *)
(* rejection, as a function of the arguments, of what the backend answers  *)
(* to each estimator, and of which estimator settles first.                *)

\* What the backend answers to the vision estimator.  The areas agree with
\* the geometry estimator's 2700 fully, within 100 sq ft, to 0.86 and to 0.70.
PredictVisionResponses ==
    { [error |-> TRUE, prediction |-> Missing] }
    \cup { [error |-> FALSE, prediction |-> Present(p)] :
              p \in [totalArea : {2000, 2700, 2750, 3100},
                     facets : {Missing, Present(<<>>), Present(<<MainFacetA>>),
                               Present(ManyFacets(7))},
                     measurements : {Present(SampleMeasurements)},
                     roofComplexityScore : {Undefined, 9000}] }

\* What the backend answers to the geometry estimator.
PredictGeometryResponses ==
    { [error |-> TRUE, prediction |-> Missing] }
    \cup { [error |-> FALSE, prediction |-> Present(p)] :
              p \in [totalArea : {2700},
                     facets : {Missing, Present(<<DormerFacet>>)},
                     measurements : {Present(SampleMeasurements)},
                     roofComplexityScore : {Undefined, 9000}] }

\* A confidence in units of 1/ConfScale (the confidences of the responses
\* above are multiples of 1/ConfScale).
InConfScale(confidence) == (confidence.n * ConfScale) \div confidence.d

\* The inputs predict builds, and what its two estimators settle with.
PredictInputs(address, satelliteImage, now) ==
    LET call == NewCall(satelliteImage, now)
    IN  [imageInput |->
             [address |-> address,
              imageQuality |-> call.imageInput.imageQuality,
              seasonality |-> detectSeasonality(now),
              timeOfDay |-> call.imageInput.timeOfDay],
         geometryInput |->
             [address |-> address,
              footprintData |-> call.geometryInput.footprintData,
              buildingAge |-> call.geometryInput.buildingAge,
              architecturalStyle |-> call.geometryInput.architecturalStyle,
              neighborhoodContext |-> call.geometryInput.neighborhoodContext]]

\* predict from Promise.all on: the join of the two settled estimators, the
\* one named by first settling first, and createConsensus of the Estimates.
PredictWithModels(inputs, vision, geometry, first, now) ==
    LET early == IF first = "vision"
                 THEN PromiseAll(Pending, vision, Pending, vision)
                 ELSE PromiseAll(Pending, Pending, geometry, geometry)
        all == IF first = "vision"
               THEN PromiseAll(early, vision, geometry, geometry)
               ELSE PromiseAll(early, vision, geometry, vision)
    IN  IF all.state = "rejected" THEN Rejected(all.error)
        ELSE LET consensus ==
                     createConsensus(
                         [all.value[1] EXCEPT !.confidence = InConfScale(@)],
                         [all.value[2] EXCEPT !.confidence = InConfScale(@)],
                         inputs.imageInput, inputs.geometryInput, now)
             IN  IF consensus.thrown THEN Rejected(consensus.error)
                 ELSE Fulfilled(consensus)

ApplyPredict ==
    /\ fn = Idle
    /\ \E satelliteImage \in BOOLEAN, first \in {"vision", "geometry"},
          visionResponse \in PredictVisionResponses,
          geometryResponse \in PredictGeometryResponses :
          LET inputs == PredictInputs("12 Oak St", satelliteImage, clock)
              vision == VisionModelPredict(inputs.imageInput, visionResponse)
              geometry == GeometryModelPredict(inputs.geometryInput, geometryResponse)
          IN  fn' = [op |-> "predict",
                     satelliteImage |-> satelliteImage,
                     imageInput |-> inputs.imageInput,
                     geometryInput |-> inputs.geometryInput,
                     visionResponse |-> visionResponse,
                     geometryResponse |-> geometryResponse,
                     vision |-> vision,
                     geometry |-> geometry,
                     result |-> PredictWithModels(inputs, vision, geometry,
                                                  first, clock)]
    /\ UNCHANGED <<clock, calls, learningMetrics, serviceVars>>

----------------------------------------------------------------------------
(* ServiceSpec: RoofAnalysisService.analyzeRoof.  A request geocodes its    *)
(* address, looks the resolved address up in the cache, on a miss awaits   *)
(* dualEngine.predict (an engine call of its own, whose two estimators and *)
(* resumption are one step here, PredictSettle), inserts a roof_analyses   *)
(* row, and stores the prediction in the cache.  The requests interleave   *)
(* at their awaits.  Nothing in analyzeRoof's use of the cache reads the   *)
(* time, and the requests of ServiceSpec all run at one reading of the     *)
(* clock.                                                                  *)

\* The addresses callers pass, and the place name geocoding finds for them.
RawAddresses == {"12 Oak St"}

PlaceName(address) == "12 Oak Street, Springfield"

\* resolvedAddress after the geocoding block: the place name, or the raw
\* address when geocoding fails or finds nothing.
ResolvedAddresses(address) == {address, PlaceName(address)}

\* Number(x.toFixed(1)): the nearest multiple of 1/10, the larger of two
ToFixed1(x) == Rat(Round(RatMul(x, RatInt(10))), 10)

\* The RoofPrediction built from a ConsensusResult, before it has an id: of
\* its fields, those whose source the ConsensusResult here carries.
ToRoofPrediction(consensus, resolvedAddress, satelliteImage, now) ==
    [id |-> 0,
     address |-> resolvedAddress,
     satelliteImage |-> satelliteImage,
     predictionDate |-> now,
     prediction |->
         [facets |-> consensus.finalPrediction.facets,
          totalArea |-> Round(consensus.finalPrediction.totalArea),
          squares |-> ToFixed1(Rat(Round(consensus.finalPrediction.totalArea), 100)),
          predominantPitch |->
              IF consensus.finalPrediction.predominantPitch = "" THEN "4/12"
              ELSE consensus.finalPrediction.predominantPitch,
          confidence |-> consensus.finalPrediction.confidence,
          dualModelMetadata |->
              [modelAgreement |-> consensus.modelAgreement,
               confidence |-> consensus.confidence,
               learningFlag |-> consensus.learningFlag,
               visionModelStrength |->
                   consensus.finalPrediction.dualModelInsights.visionModelStrength,
               geometryModelStrength |->
                   consensus.finalPrediction.dualModelInsights.geometryModelStrength,
               uncertaintyAnalysis |->
                   consensus.finalPrediction.uncertaintyAnalysis]]]

\* The insert into roof_analyses failed.
InsertError == [name |-> "PostgrestError", message |-> "insert failed"]

\* analyzeRoof up to `await supabase.functions.invoke('geocode-address')`.
\* cacheAtStart and finishedAtStart record what the process had done when
\* the call started: the cache, and the calls that had returned.
AnalyzeRoof ==
    /\ Len(requests) < MaxRequests
    /\ \E address \in RawAddresses, satelliteImage \in BOOLEAN :
          requests' = Append(requests,
              [pc |-> "geocoding",
               address |-> address,
               satelliteImage |-> satelliteImage,
               resolvedAddress |-> address,
               cacheAtStart |-> cache,
               finishedAtStart |->
                   { r \in 1..Len(requests) : requests[r].pc = "done" },
               call |-> 0,
               prediction |-> Missing,
               result |-> Pending])
    /\ UNCHANGED <<clock, fn, calls, learningMetrics, cache, roofAnalyses>>

\* The geocoding block ends and the cache is read: a hit returns the cached
\* RoofPrediction; a miss calls dualEngine.predict, which runs up to its
\* `await Promise.all([...])`.
GeocodeReturn(r) ==
    /\ requests[r].pc = "geocoding"
    /\ \E resolvedAddress \in ResolvedAddresses(requests[r].address) :
          IF resolvedAddress \in DOMAIN cache
          THEN /\ requests' = [requests EXCEPT
                                  ![r].pc = "done",
                                  ![r].resolvedAddress = resolvedAddress,
                                  ![r].result = Fulfilled(cache[resolvedAddress])]
               /\ UNCHANGED <<calls, learningMetrics>>
          ELSE /\ requests' = [requests EXCEPT
                                  ![r].pc = "predicting",
                                  ![r].resolvedAddress = resolvedAddress,
                                  ![r].call = Len(calls) + 1]
               /\ calls' = Append(calls, NewCall(requests[r].satelliteImage, clock))
               /\ learningMetrics' =
                      [learningMetrics EXCEPT !.totalPredictions = @ + 1]
    /\ UNCHANGED <<clock, fn, cache, roofAnalyses>>

\* What the estimators of a request's engine call settle with: of the
\* outcomes above, the rejection and one Estimate each.
ServiceVisionOutcomes ==
    { o \in VisionOutcomes : o.state = "rejected" \/ o.value.facets = <<MainFacetA>> }

ServiceGeometryOutcomes ==
    { o \in GeometryOutcomes : o.state = "rejected" \/ o.value.estimate = 2000 }

\* The engine call of a request from `await Promise.all([...])` to its
\* return: both estimators settle, the one named by first settling first,
\* and predict resumes as in PredictResume.  Of the call's local variables
\* the record keeps the settled join.
PredictSettle(c) ==
    /\ calls[c].pc = "awaiting"
    /\ \E vision \in ServiceVisionOutcomes, geometry \in ServiceGeometryOutcomes,
          first \in {"vision", "geometry"} :
          LET early == IF first = "vision"
                       THEN PromiseAll(Pending, vision, Pending, vision)
                       ELSE PromiseAll(Pending, Pending, geometry, geometry)
              all == IF first = "vision"
                     THEN PromiseAll(early, vision, geometry, geometry)
                     ELSE PromiseAll(early, vision, geometry, vision)
              settled == [calls[c] EXCEPT !.all = all, !.pc = "done"]
          IN  IF all.state = "rejected"
              THEN /\ calls' = [calls EXCEPT
                                   ![c] = [settled EXCEPT
                                              !.result = Rejected(all.error)]]
                   /\ UNCHANGED learningMetrics
              ELSE LET consensus == createConsensus(all.value[1], all.value[2],
                                        calls[c].imageInput, calls[c].geometryInput,
                                        clock)
                   IN  IF consensus.thrown
                       THEN /\ calls' = [calls EXCEPT
                                            ![c] = [settled EXCEPT
                                                !.result = Rejected(consensus.error)]]
                            /\ UNCHANGED learningMetrics
                       ELSE /\ calls' = [calls EXCEPT
                                            ![c] = [settled EXCEPT
                                                !.result = Fulfilled(consensus)]]
                            /\ learningMetrics' =
                                   updateMetrics(learningMetrics, calls[c].startTime,
                                                 consensus, clock)
    /\ UNCHANGED <<clock, fn, serviceVars>>

\* dualEngine.predict has settled: a rejection is rethrown by the catch
\* block; a ConsensusResult is converted and the insert is sent.
PredictReturn(r) ==
    /\ requests[r].pc = "predicting"
    /\ calls[requests[r].call].pc = "done"
    /\ LET consensus == calls[requests[r].call].result
       IN  IF consensus.state = "rejected"
           THEN requests' = [requests EXCEPT
                                ![r].pc = "done",
                                ![r].result = Rejected(consensus.error)]
           ELSE requests' = [requests EXCEPT
                                ![r].pc = "inserting",
                                ![r].prediction =
                                    Present(ToRoofPrediction(consensus.value,
                                        requests[r].resolvedAddress,
                                        requests[r].satelliteImage, clock))]
    /\ UNCHANGED <<clock, fn, calls, learningMetrics, cache, roofAnalyses>>

\* Mutant: the prediction is stored in the cache before the insert's error
\* is looked at, so a call whose insert failed leaves an entry behind.
InsertReturn_CachesBeforeErrorCheck(r) ==
    /\ requests[r].pc = "inserting"
    /\ LET resolvedAddress == requests[r].resolvedAddress
           stored(prediction) ==
               [address \in DOMAIN cache \cup {resolvedAddress} |->
                   IF address = resolvedAddress THEN prediction
                   ELSE cache[address]]
       IN  \/ /\ requests' = [requests EXCEPT ![r].pc = "done",
                                               ![r].result = Rejected(InsertError)]
              /\ cache' = stored(requests[r].prediction.value)
              /\ UNCHANGED roofAnalyses
           \/ LET id == Len(roofAnalyses) + 1
                  prediction == [requests[r].prediction.value EXCEPT !.id = id]
              IN  /\ roofAnalyses' = Append(roofAnalyses,
                                            [id |-> id, address |-> resolvedAddress])
                  /\ cache' = stored(prediction)
                  /\ requests' = [requests EXCEPT ![r].pc = "done",
                                                  ![r].result = Fulfilled(prediction)]
    /\ UNCHANGED <<clock, fn, calls, learningMetrics>>

\* The insert has returned: with an error, which is thrown, or with the id
\* of the new row, which becomes the prediction's id before the prediction
\* is stored in the cache and returned.
InsertReturn(r) ==
    /\ requests[r].pc = "inserting"
    /\ \/ /\ requests' = [requests EXCEPT ![r].pc = "done",
                                           ![r].result = Rejected(InsertError)]
          /\ UNCHANGED <<cache, roofAnalyses>>
       \/ LET id == Len(roofAnalyses) + 1
              prediction == [requests[r].prediction.value EXCEPT !.id = id]
              resolvedAddress == requests[r].resolvedAddress
          IN  /\ roofAnalyses' = Append(roofAnalyses,
                                        [id |-> id, address |-> resolvedAddress])
              /\ cache' = [address \in DOMAIN cache \cup {resolvedAddress} |->
                              IF address = resolvedAddress THEN prediction
                              ELSE cache[address]]
              /\ requests' = [requests EXCEPT ![r].pc = "done",
                                              ![r].result = Fulfilled(prediction)]
    /\ UNCHANGED <<clock, fn, calls, learningMetrics>>

InitialMetrics ==
    [totalPredictions |-> 0, accurateConsensus |-> 0, conflictResolutions |-> 0,
     visionModelWins |-> 0, geometryModelWins |-> 0,
     averageProcessingTime |-> RatInt(0), uncertaintyCalibration |-> 0]

Init ==
    /\ clock = 0
    /\ fn = Idle
    /\ calls = <<>>
    /\ learningMetrics = InitialMetrics
    /\ cache = [address \in {} |-> Missing]
    /\ roofAnalyses = <<>>
    /\ requests = <<>>

PureNext ==
    \/ Tick
    \/ ApplyWeights
    \/ ApplyMergeFacets
    \/ ApplyCombineUncertainty
    \/ ApplyVisionPredict
    \/ ApplyGeometryPredict
    \/ ApplyPredict
    \/ ApplyCreateConsensus
    \/ RunAgain

PureSpec == Init /\ [][PureNext]_vars

Next ==
    \/ Tick
    \/ Predict
    \/ \E c \in 1..Len(calls) : VisionSettle(c)
    \/ \E c \in 1..Len(calls) : GeometrySettle(c)
    \/ \E c \in 1..Len(calls) : PredictResume(c)

Spec == Init /\ [][Next]_vars

ServiceNext ==
    \/ AnalyzeRoof
    \/ \E r \in 1..Len(requests) : GeocodeReturn(r)
    \/ \E c \in 1..Len(calls) : PredictSettle(c)
    \/ \E r \in 1..Len(requests) : PredictReturn(r)
    \/ \E r \in 1..Len(requests) : InsertReturn(r)

ServiceSpec == Init /\ [][ServiceNext]_vars

----------------------------------------------------------------------------
(* Claims *)

\* The ConsensusResults of the createConsensus application under test.
Results ==
    IF fn.op = "createConsensus"
    THEN { r \in { fn.runs[i] : i \in 1..Len(fn.runs) } : ~r.thrown }
    ELSE {}

AreaDifference == Abs(fn.visionPrediction.estimate - fn.geometryPrediction.estimate)

\* C1: for positive estimates the modelAgreement of every ConsensusResult lies
\* in [0, 1] (it is never negative).
C1_AgreementInUnitInterval ==
    \A r \in Results :
        /\ 0 <= r.modelAgreement.n
        /\ r.modelAgreement.n <= r.modelAgreement.d

\* C2: when an estimator's predict rejects, predict rejects, and it rejects
\* with a ConsensusError that names the estimator that failed.
C2_RejectsWithConsensusError ==
    \A c \in 1..Len(calls) :
        (/\ calls[c].pc = "done"
         /\ "rejected" \in {calls[c].vision.state, calls[c].geometry.state})
        => /\ calls[c].result.state = "rejected"
           /\ calls[c].result.error.name = "ConsensusError"
           /\ ErrorSide(calls[c].result.error) \in {"vision", "geometry"}

FacetValid(f) == f.area.n > 0 /\ f.type # ""

\* C3: the facets of a ConsensusResult are non-empty, each with area > 0 and a
\* non-empty type, and mergeFacets never returns an empty list.
C3_FacetsNonEmptyAndValid ==
    /\ \A r \in Results :
          /\ r.finalPrediction.facets # <<>>
          /\ \A i \in 1..Len(r.finalPrediction.facets) :
                FacetValid(r.finalPrediction.facets[i])
    /\ fn.op = "mergeFacets" => fn.merged # <<>>

\* C4: when both estimators return no facets, the result has exactly one facet,
\* of type main, whose area is the consensus estimate of that result.
C4_DefaultFacetHasConsensusArea ==
    \A r \in Results :
        (fn.visionPrediction.facets = <<>> /\ fn.geometryPrediction.facets = <<>>)
        => /\ Len(r.finalPrediction.facets) = 1
           /\ r.finalPrediction.facets[1].type = "main"
           /\ r.finalPrediction.facets[1].area = r.estimate

HighCondition(r) ==
    /\ r.modelAgreement.n * 10 > 9 * r.modelAgreement.d
    /\ fn.visionPrediction.confidence * 10 > 8 * ConfScale
    /\ fn.geometryPrediction.confidence * 10 > 8 * ConfScale

MediumCondition(r) ==
    \/ r.modelAgreement.n * 10 > 8 * r.modelAgreement.d
    \/ /\ fn.visionPrediction.confidence * 10 > 7 * ConfScale
       /\ fn.geometryPrediction.confidence * 10 > 7 * ConfScale

\* C5: the confidence label is 'high' exactly when modelAgreement > 0.9 and both
\* confidences > 0.8, otherwise 'medium' exactly when modelAgreement > 0.8 or
\* both confidences > 0.7, otherwise 'low'.
C5_ConfidenceLabel ==
    \A r \in Results :
        /\ r.confidence \in {"high", "medium", "low"}
        /\ r.confidence = "high" <=> HighCondition(r)
        /\ r.confidence = "medium" <=> (~HighCondition(r) /\ MediumCondition(r))
        /\ r.confidence = "low" <=> (~HighCondition(r) /\ ~MediumCondition(r))

\* A result labelled 'medium' on the strength of the two confidences alone.
C5_Witness ==
    \E r \in Results :
        /\ r.confidence = "medium"
        /\ r.modelAgreement.n * 10 <= 8 * r.modelAgreement.d
        /\ fn.visionPrediction.confidence = 8000

HighUncertainty ==
    \/ fn.visionPrediction.uncertainty * 10 > 5 * ConfScale
    \/ fn.geometryPrediction.uncertainty * 10 > 5 * ConfScale

\* C6: the learning flag has priority 'high' (major model disagreement) whenever
\* areaDifference > 200, whatever the label and the uncertainties; otherwise
\* priority 'medium' when the label is 'low' or an uncertainty exceeds 0.5;
\* otherwise there is no flag.
C6_LearningFlag ==
    \A r \in Results :
        IF AreaDifference > 200
        THEN /\ r.learningFlag.priority = "high"
             /\ r.learningFlag.reason = "Major model disagreement"
        ELSE IF r.confidence = "low" \/ HighUncertainty
             THEN r.learningFlag.priority = "medium"
             ELSE r.learningFlag = NoLearningFlag

\* estA = 2000, estB = 2600 with label 'medium' and no high uncertainty: the
\* flag is 'high' all the same.
C6_Witness ==
    \E r \in Results :
        /\ fn.visionPrediction.estimate = 2000
        /\ fn.geometryPrediction.estimate = 2600
        /\ r.confidence = "medium"
        /\ ~HighUncertainty
        /\ r.learningFlag.priority = "high"

\* C7: equal positive estimates with both confidences 0.9 and no uncertainty
\* above 0.5 give modelAgreement exactly 1, label 'high' and no learning flag.
C7_AgreeingEstimators ==
    \A r \in Results :
        (/\ fn.visionPrediction.estimate = fn.geometryPrediction.estimate
         /\ fn.visionPrediction.confidence = 9000
         /\ fn.geometryPrediction.confidence = 9000
         /\ ~HighUncertainty)
        => /\ r.modelAgreement = RatInt(1)
           /\ r.confidence = "high"
           /\ r.learningFlag = NoLearningFlag

C7_Witness ==
    \E r \in Results :
        /\ fn.visionPrediction.estimate = 2000
        /\ fn.geometryPrediction.estimate = 2000
        /\ fn.visionPrediction.confidence = 9000
        /\ fn.geometryPrediction.confidence = 9000
        /\ ~HighUncertainty
        /\ r.confidence = "high"

\* The bonuses in thousandths: the weight before the floor is
\* (500 + bonuses) / 1000 * confidence.
VisionBonus(input) ==
    (IF input.imageQuality * 10 > 8 * ConfScale THEN 200 ELSE 0)
    + (IF input.timeOfDay = "afternoon" THEN 100 ELSE 0)

GeometryBonus(input) ==
    (IF input.footprintData THEN 150 ELSE 0)
    + (IF input.buildingAge # Undefined THEN 100 ELSE 0)
    + (IF input.neighborhoodContext.present THEN 150 ELSE 0)

\* weight (units of 1/WeightScale) = max((500 + bonus)/1000 * confidence, 0.1)
WeightIs(weight, bonus, confidence) ==
    weight * ((1000 * ConfScale) \div WeightScale) =
        Max((500 + bonus) * confidence, 100 * ConfScale)

\* C8: each weight is max((0.5 + bonuses) x confidence, 0.1), so both weights
\* are >= 0.1 and both normalized strengths are strictly positive.
C8_WeightFloor ==
    /\ fn.op = "weights" =>
          /\ WeightIs(fn.visionWeight, VisionBonus(fn.imageInput), fn.visionConfidence)
          /\ WeightIs(fn.geometryWeight, GeometryBonus(fn.geometryInput),
                      fn.geometryConfidence)
          /\ fn.visionWeight * 10 >= WeightScale
          /\ fn.geometryWeight * 10 >= WeightScale
    /\ \A r \in Results :
          /\ r.finalPrediction.dualModelInsights.visionModelStrength.n > 0
          /\ r.finalPrediction.dualModelInsights.geometryModelStrength.n > 0

\* imageQuality 0.9 in the afternoon with confidence 0: the floor applies.
C8_Witness ==
    /\ fn.op = "weights"
    /\ fn.imageInput = [imageQuality |-> 9000, timeOfDay |-> "afternoon"]
    /\ fn.visionConfidence = 0
    /\ fn.visionWeight * 10 = WeightScale

StripId(f) ==
    [polygon |-> f.polygon, area |-> f.area, pitch |-> f.pitch, type |-> f.type,
     confidence |-> f.confidence]

FacetSet(facets) == { StripId(facets[i]) : i \in 1..Len(facets) }

\* C9: mergeFacets(A, B) and mergeFacets(B, A) produce the same set of merged
\* facets (type, area, confidence, pitch, polygon) up to renaming of ids.
C9_MergeCommutes ==
    fn.op = "mergeFacets" =>
        FacetSet(fn.merged)
            = FacetSet(mergeFacets(fn.geometryFacets, fn.visionFacets, fn.now))

\* C10: runs of createConsensus on identical arguments produce identical
\* results in every field, whenever they happen.
C10_RunsIdentical ==
    fn.op = "createConsensus" =>
        \A i, j \in 1..Len(fn.runs) : fn.runs[i] = fn.runs[j]

\* An estimator of call c has rejected.
EstimatorRejected(c) ==
    calls[c].vision.state = "rejected" \/ calls[c].geometry.state = "rejected"

\* A step in which an estimator of call c settles after the join rejected.
LateArrival(c) ==
    /\ calls[c].all.state = "rejected"
    /\ \/ calls'[c].vision # calls[c].vision
       \/ calls'[c].geometry # calls[c].geometry

\* C12: the join is fail-fast.  As soon as one estimator has rejected the
\* join is rejected and predict can resume without the other estimator, a
\* call with a rejected estimator never ends with a ConsensusResult, and the
\* other estimator's result, arriving later, changes neither the outcome of
\* the call nor accurateConsensus, conflictResolutions, averageProcessingTime.
C12_FailFastJoin ==
    /\ [](\A c \in 1..Len(calls) :
            EstimatorRejected(c) =>
                /\ calls[c].all.state = "rejected"
                /\ calls[c].pc = "awaiting" => ENABLED PredictResume(c)
                /\ calls[c].pc = "done" => calls[c].result = Rejected(calls[c].all.error))
    /\ [][\A c \in 1..Len(calls) :
             LateArrival(c) =>
                 /\ calls'[c].all = calls[c].all
                 /\ calls'[c].pc = calls[c].pc
                 /\ calls'[c].result = calls[c].result
                 /\ learningMetrics' = learningMetrics]_vars

\* The vision estimator rejected first, predict rejected with its error, and
\* the geometry estimator's Estimate has arrived since.
C12_Witness ==
    \E c \in 1..Len(calls) :
        /\ calls[c].first = "vision"
        /\ calls[c].vision.state = "rejected"
        /\ calls[c].geometry.state = "fulfilled"
        /\ calls[c].pc = "done"
        /\ calls[c].result = Rejected(MalformedResponse)

\* C13: the ConsensusResult of a predict call is createConsensus of that
\* call's own two Estimates and own inputs (at some time during the call),
\* whatever calls ran before it or run concurrently with it.
C13_ResultOfOwnEstimates ==
    \A c \in 1..Len(calls) :
        calls[c].result.state = "fulfilled" =>
            \E now \in calls[c].startTime..clock :
                calls[c].result.value =
                    createConsensus(calls[c].vision.value, calls[c].geometry.value,
                                    calls[c].imageInput, calls[c].geometryInput, now)

\* A call has returned its ConsensusResult while an earlier call, whose
\* Estimates differ from its own, has its Estimates and is still running.
C13_Witness ==
    \E c, d \in 1..Len(calls) :
        /\ c < d
        /\ calls[d].result.state = "fulfilled"
        /\ calls[c].pc = "awaiting"
        /\ calls[c].all.state = "fulfilled"
        /\ calls[c].all.value # calls[d].all.value

\* C15: both estimators are started before either is awaited, and two calls
\* with the same Estimates and inputs end with the same outcome whether the
\* vision or the geometry estimator finished first.
C15_CompletionOrderIrrelevant ==
    /\ \A c \in 1..Len(calls) :
          calls[c].first = "none" =>
              calls[c].vision = Pending /\ calls[c].geometry = Pending
    /\ \A c, d \in 1..Len(calls) :
          (/\ calls[c].pc = "done" /\ calls[d].pc = "done"
           /\ calls[c].vision.state = "fulfilled"
           /\ calls[c].geometry.state = "fulfilled"
           /\ calls[c].vision = calls[d].vision
           /\ calls[c].geometry = calls[d].geometry
           /\ calls[c].imageInput = calls[d].imageInput
           /\ calls[c].geometryInput = calls[d].geometryInput
           /\ calls[c].first # calls[d].first)
          => calls[c].result = calls[d].result

\* Two calls with the same Estimates, one whose vision estimator finished
\* first and one whose geometry estimator did, both with a ConsensusResult.
C15_Witness ==
    \E c, d \in 1..Len(calls) :
        /\ calls[c].first = "vision" /\ calls[d].first = "geometry"
        /\ calls[c].vision = calls[d].vision
        /\ calls[c].geometry = calls[d].geometry
        /\ calls[c].imageInput = calls[d].imageInput
        /\ calls[c].result.state = "fulfilled"
        /\ calls[d].result.state = "fulfilled"

\* C16: getMetrics().totalPredictions equals the number of predict calls
\* started, whatever their interleaving and their outcomes.
C16_TotalPredictions ==
    learningMetrics.totalPredictions = Len(calls)

\* Two calls in flight together, the join of one of them already rejected.
C16_Witness ==
    \E c, d \in 1..Len(calls) :
        /\ c < d
        /\ calls[c].pc = "awaiting"
        /\ calls[c].all.state = "rejected"
        /\ calls[d].pc = "awaiting"
        /\ learningMetrics.totalPredictions = 2

\* C17: the consensus estimate is (estVision x wVision + estGeometry x
\* wGeometry) / (wVision + wGeometry) with the floored weights, lies between
\* the smaller and the larger of the two estimates, and is the totalArea of
\* the final prediction.
C17_WeightedEstimate ==
    \A r \in Results :
        LET wVision == calculateVisionWeight(fn.visionPrediction, fn.imageInput)
            wGeometry == calculateGeometryWeight(fn.geometryPrediction, fn.geometryInput)
            estVision == fn.visionPrediction.estimate
            estGeometry == fn.geometryPrediction.estimate
            smaller == IF estVision < estGeometry THEN estVision ELSE estGeometry
        IN  /\ wVision * 10 >= WeightScale /\ wGeometry * 10 >= WeightScale
            /\ r.estimate =
                  Rat(estVision * wVision + estGeometry * wGeometry, wVision + wGeometry)
            /\ smaller * r.estimate.d <= r.estimate.n
            /\ r.estimate.n <= Max(estVision, estGeometry) * r.estimate.d
            /\ r.finalPrediction.totalArea = r.estimate

\* Estimates 2000 and 2600 with vision confidence 0 (its weight is the floor
\* 0.1) and geometry confidence 0.9: the estimate is strictly between them.
C17_Witness ==
    \E r \in Results :
        /\ fn.visionPrediction.estimate = 2000
        /\ fn.geometryPrediction.estimate = 2600
        /\ fn.visionPrediction.confidence = 0
        /\ fn.geometryPrediction.confidence = 9000
        /\ 2000 * r.estimate.d < r.estimate.n
        /\ r.estimate.n < 2600 * r.estimate.d

\* The variance and the needsVerification flag the claim states, for the
\* two uncertainties (units of 1/ConfScale), estimates and area difference.
UncertaintyIs(analysis, vision, geometry, areaDifference) ==
    LET mean == Rat(vision.uncertainty + geometry.uncertainty, 2 * ConfScale)
        disagreement == Rat(areaDifference, Max(vision.estimate, geometry.estimate))
    IN  /\ analysis.variance \in {mean, disagreement}
        /\ ~RatLess(analysis.variance, mean)
        /\ ~RatLess(analysis.variance, disagreement)
        /\ analysis.needsVerification <=>
              (analysis.variance.n * 10 > 4 * analysis.variance.d \/ areaDifference > 200)

\* C20: the combined uncertainty has variance max((uncertaintyVision +
\* uncertaintyGeometry) / 2, areaDifference / max(estVision, estGeometry)),
\* and needsVerification is true exactly when that variance > 0.4 or
\* areaDifference > 200.
C20_CombinedUncertainty ==
    /\ fn.op = "combineUncertaintyAnalysis" =>
          UncertaintyIs(fn.result, fn.visionPrediction, fn.geometryPrediction,
                        fn.areaDifference)
    /\ \A r \in Results :
          UncertaintyIs(r.finalPrediction.uncertaintyAnalysis, fn.visionPrediction,
                        fn.geometryPrediction, AreaDifference)

\* Estimates 2000 and 2200 with uncertainties 0.3 and 0.5: the variance is
\* exactly 0.4 and the difference exactly 200, so no verification is needed.
C20_Witness ==
    /\ fn.op = "combineUncertaintyAnalysis"
    /\ fn.visionPrediction.estimate = 2000
    /\ fn.visionPrediction.uncertainty = 3000
    /\ fn.geometryPrediction.estimate = 2200
    /\ fn.geometryPrediction.uncertainty = 5000
    /\ fn.result.variance = Rat(4, 10)
    /\ ~fn.result.needsVerification

AllTyped(facets) == \A i \in 1..Len(facets) : facets[i].type # ""

\* x = the arithmetic mean of the given field over the members
IsMeanOf(x, members, field) ==
    LET sum == SumRat(members, field)
    IN  x.n * sum.d * Len(members) = sum.n * x.d

\* merged has exactly one facet per type present in vision \o geometry: the
\* facet itself for a type with one member, and for a type with more the
\* means of area and confidence and the polygon of the first member.
OneFacetPerType(visionFacets, geometryFacets, merged) ==
    LET allFacets == visionFacets \o geometryFacets
        types == { allFacets[i].type : i \in 1..Len(allFacets) }
    IN  /\ Len(merged) = Cardinality(types)
        /\ \A type \in types :
              LET members == SelectSeq(allFacets, LAMBDA f : f.type = type)
              IN  \E i \in 1..Len(merged) :
                      /\ merged[i].type = type
                      /\ IF Len(members) = 1
                         THEN merged[i] = members[1]
                         ELSE /\ IsMeanOf(merged[i].area, members, "area")
                              /\ IsMeanOf(merged[i].confidence, members, "confidence")
                              /\ merged[i].polygon = members[1].polygon

\* C18 as stated: for input lists in which every facet has a type,
\* mergeFacets emits exactly one facet per distinct type present in the union
\* of both lists (unchanged for one member, the means and the first polygon
\* for several).
C18_OneFacetPerType ==
    (fn.op = "mergeFacets" /\ AllTyped(fn.visionFacets) /\ AllTyped(fn.geometryFacets))
    => OneFacetPerType(fn.visionFacets, fn.geometryFacets, fn.merged)

\* C18 amended: the same for input lists that are not both empty.
C18_OneFacetPerTypeUnlessEmpty ==
    (/\ fn.op = "mergeFacets"
     /\ AllTyped(fn.visionFacets) /\ AllTyped(fn.geometryFacets)
     /\ Len(fn.visionFacets) + Len(fn.geometryFacets) > 0)
    => OneFacetPerType(fn.visionFacets, fn.geometryFacets, fn.merged)

\* Vision reports a main facet and a dormer, geometry another main facet:
\* the two main facets merge into one of area 1000 on the vision polygon,
\* the dormer passes through.
C18_Witness ==
    /\ fn.op = "mergeFacets"
    /\ fn.visionFacets = <<MainFacetA, DormerFacet>>
    /\ fn.geometryFacets = <<MainFacetB>>
    /\ Len(fn.merged) = 2
    /\ fn.merged[1].area = RatInt(1000)
    /\ fn.merged[1].polygon = PolyA
    /\ fn.merged[2] = DormerFacet

\* C19: mergeFacets does not mutate its inputs.  With the argument facets at
\* the addresses 1 .. n before the call, every one of these objects and both
\* argument arrays have the same contents after it, the array returned holds
\* the facets mergeFacets computes, and each facet merged from several
\* members is an object that did not exist before.
C19_InputsNotMutated ==
    fn.op = "mergeFacets" =>
        LET before == fn.visionFacets \o fn.geometryFacets
            after == fn.objects
        IN  /\ \A a \in 1..Len(before) : after.heap[a] = before[a]
            /\ Deref(after.heap, after.visionFacets) = fn.visionFacets
            /\ Deref(after.heap, after.geometryFacets) = fn.geometryFacets
            /\ Deref(after.heap, after.merged) = fn.merged
            /\ \A i \in 1..Len(after.merged) :
                  Len(FacetsOfType(before, after.heap[after.merged[i]].type)) > 1
                  => after.merged[i] > Len(before)

\* Two main facets, one from each estimator, are merged: the merged facet is
\* a third object and the two inputs are as they were.
C19_Witness ==
    /\ fn.op = "mergeFacets"
    /\ fn.visionFacets = <<MainFacetA>>
    /\ fn.geometryFacets = <<MainFacetB>>
    /\ fn.objects.merged = <<3>>
    /\ fn.objects.heap[1] = MainFacetA
    /\ fn.objects.heap[2] = MainFacetB
    /\ fn.objects.heap[3].area = RatInt(1000)

\* The response has the expected shape: no error, and a prediction object
\* with totalArea, facets and measurements.
WellFormed(response) ==
    /\ ~response.error
    /\ response.prediction.present
    /\ response.prediction.value.totalArea # Undefined
    /\ response.prediction.value.facets.present
    /\ response.prediction.value.measurements.present

\* C11: an estimator rejects, and returns no Estimate, whenever its backend
\* reports an error or answers without a prediction object or with a
\* prediction that lacks totalArea, facets or measurements.
C11_RejectsMalformedResponse ==
    fn.op \in {"VisionModel.predict", "GeometryModel.predict"} =>
        (~WellFormed(fn.response) => fn.result.state = "rejected")

\* The requests that returned a RoofPrediction for the address.
Succeeded(address) ==
    { r \in 1..Len(requests) :
        /\ requests[r].result.state = "fulfilled"
        /\ requests[r].resolvedAddress = address }

\* C14: analyzeRoof is consistent per address.  Any two calls that resolved
\* to the same address and succeeded returned the same RoofPrediction, and
\* at most one engine prediction was made by them and at most one
\* roof_analyses row exists for that address, under every interleaving.
C14_ConsistentPerAddress ==
    \A address \in { requests[r].resolvedAddress : r \in 1..Len(requests) } :
        /\ \A r1, r2 \in Succeeded(address) :
              requests[r1].result.value = requests[r2].result.value
        /\ Cardinality({ r \in Succeeded(address) : requests[r].call # 0 }) <= 1
        /\ Cardinality({ i \in 1..Len(roofAnalyses) :
                            roofAnalyses[i].address = address }) <= 1

\* The members of a sequence.
Range(seq) == { seq[i] : i \in 1..Len(seq) }

\* C21: uncertaintyAnalysis.riskFactors of a ConsensusResult contains every
\* risk factor the vision estimator and the geometry estimator identified
\* for this prediction, and 'Model disagreement detected' exactly when the
\* two estimates differ by more than 100 sq ft.
C21_RiskFactorsUnion ==
    (fn.op = "predict" /\ fn.result.state = "fulfilled") =>
        LET riskFactors ==
                Range(fn.result.value.finalPrediction.uncertaintyAnalysis.riskFactors)
            vision == calculateUncertainty(fn.imageInput,
                                           fn.visionResponse.prediction.value)
            geometry == calculateGeometricUncertainty(fn.geometryInput,
                                           fn.geometryResponse.prediction.value)
        IN  /\ Range(vision.riskFactors) \subseteq riskFactors
            /\ Range(geometry.riskFactors) \subseteq riskFactors
            /\ "Model disagreement detected" \in riskFactors
                   <=> Abs(fn.vision.value.estimate - fn.geometry.value.estimate) > 100

\* A prediction object whose facets field is missing or not an array.
FacetsMalformed(response) ==
    /\ ~response.error
    /\ response.prediction.present
    /\ ~response.prediction.value.facets.present

\* C22: the geometry estimator fails as the vision estimator does.  For a
\* backend response whose facets are missing or not an array, for which
\* VisionModel.predict rejects, GeometryModel.predict rejects as well and
\* returns no Estimate with an empty facet list.
C22_GeometryRejectsAsVision ==
    (fn.op = "GeometryModel.predict" /\ FacetsMalformed(fn.response)) =>
        \A input \in VisionModelInputs :
            VisionModelPredict(input, fn.response).state = "rejected"
                => fn.result.state = "rejected"

\* b as 0 or 1
Indicator(b) == IF b THEN 1 ELSE 0

\* C23: the vision estimator's uncertainty is the sum of the penalties that
\* apply: 0.3 exactly when imageQuality is supplied and below 0.7 (0
\* included), 0.1 exactly in winter, 0.15 exactly in the morning or the
\* evening, 0.2 exactly when the backend reports more than 8 facets; it lies
\* in [0, 0.75].
C23_VisionUncertainty ==
    (fn.op = "VisionModel.predict" /\ fn.result.state = "fulfilled") =>
        /\ fn.result.value.uncertainty =
              3000 * Indicator(fn.input.imageQuality # Undefined
                                 /\ fn.input.imageQuality < 7000)
              + 1000 * Indicator(fn.input.seasonality = "winter")
              + 1500 * Indicator(fn.input.timeOfDay \in {"morning", "evening"})
              + 2000 * Indicator(Len(fn.response.prediction.value.facets.value) > 8)
        /\ fn.result.value.uncertainty \in 0..7500

\* C24: the vision estimator's confidence is max(0.3, 0.8 x imageQuality
\* (when supplied) x 0.9 (when there are more than 6 facets) x 0.85 (when
\* the roof-complexity score exceeds 0.8)), and lies in [0.3, 0.8].
C24_VisionConfidence ==
    (fn.op = "VisionModel.predict" /\ fn.result.state = "fulfilled") =>
        LET prediction == fn.response.prediction.value
            quality == IF fn.input.imageQuality # Undefined
                       THEN Rat(fn.input.imageQuality, ConfScale) ELSE RatInt(1)
            facets == IF Len(prediction.facets.value) > 6
                      THEN Rat(9, 10) ELSE RatInt(1)
            complexity == IF prediction.roofComplexityScore # Undefined
                             /\ prediction.roofComplexityScore > 8000
                          THEN Rat(85, 100) ELSE RatInt(1)
            product == RatMul(RatMul(RatMul(Rat(8, 10), quality), facets), complexity)
        IN  /\ fn.result.value.confidence = RatMax(Rat(3, 10), product)
            /\ ~RatLess(fn.result.value.confidence, Rat(3, 10))
            /\ ~RatLess(Rat(8, 10), fn.result.value.confidence)

\* C25: the geometry estimator's confidence is within [0.4, 1.0], for every
\* combination of footprint data, building age, architectural style,
\* neighborhood context and complexity score.
C25_GeometryConfidenceClamped ==
    /\ (fn.op = "GeometryModel.predict" /\ fn.result.state = "fulfilled") =>
          /\ ~RatLess(fn.result.value.confidence, Rat(4, 10))
          /\ ~RatLess(RatInt(1), fn.result.value.confidence)
    /\ (fn.op = "predict" /\ fn.geometry.state = "fulfilled") =>
          /\ ~RatLess(fn.geometry.value.confidence, Rat(4, 10))
          /\ ~RatLess(RatInt(1), fn.geometry.value.confidence)

\* Every multiplier raises the confidence: footprint data, a known age and
\* style, an area within 20% of the neighborhood's, a simple roof.  The
\* product 0.85 x 1.1 x 1.05 x 1.05 x 1.1 x 1.05 exceeds 1 and is capped.
C25_Witness ==
    /\ fn.op = "GeometryModel.predict"
    /\ fn.result.state = "fulfilled"
    /\ fn.input.footprintData
    /\ fn.input.buildingAge = 1985
    /\ fn.input.architecturalStyle = "Colonial"
    /\ fn.input.neighborhoodContext.present
    /\ fn.response.prediction.value.totalArea = 2000
    /\ fn.response.prediction.value.roofComplexityScore = 3000
    /\ fn.result.value.confidence = RatInt(1)

\* C26: in every execution of predict with the vision estimator it
\* constructs, the vision confidence is at most 0.68 (the image quality is
\* 0.85 or 0.6); no ConsensusResult it returns is labelled 'high', the label
\* is 'medium' exactly when modelAgreement > 0.8, and 'low' otherwise.
C26_NeverHigh ==
    fn.op = "predict" =>
        /\ fn.imageInput.imageQuality \in {6000, 8500}
        /\ fn.vision.state = "fulfilled" =>
               ~RatLess(Rat(68, 100), fn.vision.value.confidence)
        /\ fn.result.state = "fulfilled" =>
               /\ fn.result.value.confidence # "high"
               /\ fn.result.value.confidence =
                      IF RatAboveTenths(fn.result.value.modelAgreement, 8)
                      THEN "medium" ELSE "low"

\* An image was passed and the backend reports a simple roof, so the vision
\* confidence is the largest possible; the geometry confidence exceeds 0.7;
\* the estimates 2000 and 2700 agree to 0.70 and the label is 'low'.
C26_Witness ==
    /\ fn.op = "predict"
    /\ fn.satelliteImage
    /\ fn.result.state = "fulfilled"
    /\ fn.vision.value.confidence = Rat(68, 100)
    /\ RatLess(Rat(7, 10), fn.geometry.value.confidence)
    /\ fn.vision.value.estimate = 2000
    /\ fn.geometry.value.estimate = 2700
    /\ fn.result.value.confidence = "low"

\* C27: in every ConsensusResult built from two positive estimates, the
\* consensus estimate lies inside its own confidence interval (the simple
\* average of the two estimates, plus and minus min(variance x 0.3, 0.4) of
\* that average): confidenceRange.min <= estimate <= confidenceRange.max.
C27_EstimateInsideInterval ==
    \A r \in Results :
        (fn.visionPrediction.estimate > 0 /\ fn.geometryPrediction.estimate > 0) =>
            LET range == r.finalPrediction.uncertaintyAnalysis.confidenceRange
            IN  /\ ~RatLess(r.estimate, range.min)
                /\ ~RatLess(range.max, r.estimate)

\* The requests that have resolved their address and read the cache, and
\* whose resolved address had a cache entry when they started: a call for
\* that address had completed successfully before.
StartedAfterSuccess ==
    { r \in 1..Len(requests) :
        /\ requests[r].pc # "geocoding"
        /\ requests[r].resolvedAddress \in DOMAIN requests[r].cacheAtStart }

\* C28: once analyzeRoof has completed successfully for a resolved address,
\* every call that starts afterwards and resolves to that address returns
\* that cached RoofPrediction, whatever its satelliteImage, without an
\* engine prediction and without a roof_analyses row of its own; and no
\* entry ever leaves the cache.
C28_ServedFromCache ==
    /\ \A r \in StartedAfterSuccess :
          /\ requests[r].pc = "done"
          /\ requests[r].call = 0
          /\ requests[r].prediction = Missing
          /\ requests[r].result =
                 Fulfilled(requests[r].cacheAtStart[requests[r].resolvedAddress])
    /\ \A r \in 1..Len(requests) :
          DOMAIN requests[r].cacheAtStart \subseteq DOMAIN cache

\* The requests that succeeded for an address with a prediction of their own.
Stored(address) == { r \in Succeeded(address) : requests[r].call # 0 }

\* The requests r that end in this step, rejected or not.
Ending(r) == requests[r].pc # "done" /\ requests'[r].pc = "done"

\* C29: a failed analyzeRoof leaves the cache unchanged.  When the engine
\* prediction of a call rejects, or its insert returns an error, the call
\* rejects with that error and the step changes neither the cache nor the
\* table; every cache entry is the result of a call that succeeded with a
\* prediction of its own; and a call that starts after a call for the same
\* resolved address has failed makes an engine prediction again, as long as
\* no call has succeeded for the address.
C29_FailureNotCached ==
    /\ [][\A r \in 1..Len(requests) :
             /\ (Ending(r) /\ requests[r].pc = "predicting") =>
                    /\ calls[requests[r].call].result.state = "rejected"
                    /\ requests'[r].result =
                           Rejected(calls[requests[r].call].result.error)
             /\ (Ending(r) /\ requests[r].pc = "inserting"
                           /\ roofAnalyses' = roofAnalyses) =>
                    requests'[r].result = Rejected(InsertError)
             /\ (Ending(r) /\ requests'[r].result.state = "rejected") =>
                    /\ cache' = cache
                    /\ roofAnalyses' = roofAnalyses]_vars
    /\ [](\A address \in DOMAIN cache :
             \E r \in Stored(address) :
                 requests[r].result = Fulfilled(cache[address]))
    /\ [](\A later \in 1..Len(requests) :
             \A failed \in requests[later].finishedAtStart :
                 (/\ requests[failed].result.state = "rejected"
                  /\ requests[later].pc # "geocoding"
                  /\ requests[later].resolvedAddress =
                         requests[failed].resolvedAddress
                  /\ Stored(requests[later].resolvedAddress) \subseteq {later})
                     => requests[later].call # 0)

\* A call started after a call for the same resolved address had failed, one
\* on the engine's rejection and one on the insert's error, and it is making
\* an engine prediction of its own; the cache is still empty.
C29_Witness ==
    \E failed, later \in 1..Len(requests) :
        /\ failed \in requests[later].finishedAtStart
        /\ requests[failed].result.state = "rejected"
        /\ requests[later].resolvedAddress = requests[failed].resolvedAddress
        /\ requests[later].call # 0
        /\ requests[failed].call # 0
        /\ DOMAIN cache = {}
        /\ \E r \in requests[later].finishedAtStart :
              requests[r].result = Rejected(InsertError)
        /\ \E r \in requests[later].finishedAtStart :
              /\ requests[r].result.state = "rejected"
              /\ requests[r].prediction = Missing

\* The predict calls that have returned a ConsensusResult.
Returned == { c \in 1..Len(calls) : calls[c].result.state = "fulfilled" }

\* The predict calls that reject in this step.
Rejecting == { c \in 1..Len(calls) :
                  /\ calls[c].result.state # "rejected"
                  /\ calls'[c].result.state = "rejected" }

\* C30: accurateConsensus + conflictResolutions <= the number of predict
\* calls that returned a ConsensusResult <= totalPredictions in every
\* reachable state; the three counters never decrease; and a predict call
\* that rejects adds 1 to totalPredictions, when it starts, and changes no
\* other metric: the step that starts a call changes nothing but
\* totalPredictions, and apart from that step the metrics change only when
\* a call returns a ConsensusResult.
C30_MetricsBounds ==
    /\ [](/\ learningMetrics.accurateConsensus + learningMetrics.conflictResolutions
                 <= Cardinality(Returned)
          /\ Cardinality(Returned) <= learningMetrics.totalPredictions)
    /\ [][/\ learningMetrics'.totalPredictions >= learningMetrics.totalPredictions
          /\ learningMetrics'.accurateConsensus >= learningMetrics.accurateConsensus
          /\ learningMetrics'.conflictResolutions >=
                 learningMetrics.conflictResolutions
          /\ Len(calls') = Len(calls) + 1 =>
                 learningMetrics' =
                     [learningMetrics EXCEPT !.totalPredictions = @ + 1]
          /\ (Len(calls') = Len(calls) /\ Rejecting # {}) =>
                 learningMetrics' = learningMetrics
          /\ (Len(calls') = Len(calls) /\ learningMetrics' # learningMetrics) =>
                 \E c \in 1..Len(calls) :
                     /\ calls[c].result.state = "pending"
                     /\ calls'[c].result.state = "fulfilled"]_vars

\* One call has rejected and one has returned a ConsensusResult that was
\* counted as accurate or as a conflict.
C30_Witness ==
    /\ \E c \in 1..Len(calls) : calls[c].result.state = "rejected"
    /\ Cardinality(Returned) = 1
    /\ learningMetrics.accurateConsensus + learningMetrics.conflictResolutions = 1
    /\ learningMetrics.totalPredictions = 2

====
